---- MODULE Spec2Model ----
(***************************************************************************)
(* A model of mars, a typed layer over the Vulkan binding crate rk.        *)
(*                                                                         *)
(*   SpecImage    images, image views and usage casts        (image.rs)    *)
(*   SpecVertex   lowering of vertex layouts                 (function.rs) *)
(*   SpecBindings lowering of descriptor bindings and writes (function.rs) *)
(*   SpecPass     render pass attachment graph, attachments  (pass.rs)     *)
(*   SpecCalls    native call sequences of the public operations, their    *)
(*                failure handling and the queue lock                      *)
(***************************************************************************)
EXTENDS Integers, Sequences, FiniteSets, TLC

VARIABLES
    image,      \* the Image under study, or NoImage
    view,       \* the ImageView created from it, or NoView
    sampled,    \* TRUE when the image was moved into a SampledImage
    created,    \* ghost: how the image was created and with which usage
    last,       \* ghost: the last image operation, its request and its result
    vparams,    \* the vertex parameters handed to parameter_descs_to_raw
    vraw,       \* its result: <<binding descriptions, attribute descriptions>>
    vtype,      \* the vertex input type of a function prototype
    vbuffer,    \* a vertex buffer of that type
    btuple,     \* the Bindings tuple of a function prototype
    blayout,    \* the descriptor set layout bindings of its FunctionDef
    pipeline,   \* the pipeline state its FunctionDef was created with
    nextSet,    \* the next descriptor set handle the device hands out
    argWrites,  \* the raw descriptor writes of the last make_arguments
    proto,      \* the render pass prototype
    passDesc,   \* the result of get_render_pass_desc for it
    attachments,\* the Attachments created for it
    fbViews,    \* the views Attachments::as_raw returned
    cleared,    \* what the last RenderEngine::clear or pass on the target recorded
    mapped,     \* per buffer: how many times the device has it mapped
    guard,      \* the live map guard (it holds the borrow of the Context)
    attempts,   \* ghost, per buffer: calls of Device::map_buffer
    maps,       \* ghost, per buffer: calls of Device::map_buffer that succeeded
    unmaps,     \* ghost, per buffer: calls of Device::unmap_buffer
    engineCalls,\* the clear and pass calls made on one RenderEngine, in order
    enginePc,   \* index of the next native call of the running one, 0 when idle
    recorded,   \* the last RenderEngine::pass: its arguments and what it recorded
    pc,         \* per caller: index of the next native call of its operation
    op,         \* per caller: the public operation it runs
    outcome,    \* per caller: how the operation ended
    failed,     \* per caller: the code of the native call that failed
    returned,       \* ghost, per caller: the calls that returned, with their results
    lockHolder, \* the caller holding the queue lock
    submitting  \* per caller: a queue submission is in flight

imageVars == <<image, view, sampled, created, last>>
vertexVars == <<vparams, vraw, vtype, vbuffer>>
bindingVars == <<btuple, blayout, pipeline, nextSet, argWrites>>
passVars == <<proto, passDesc, attachments, fbViews, cleared>>
bufferVars == <<mapped, guard, attempts, maps, unmaps>>
engineVars == <<engineCalls, enginePc, recorded>>
callVars == <<pc, op, outcome, failed, returned, lockHolder, submitting>>
vars == <<imageVars, vertexVars, bindingVars, passVars, bufferVars, engineVars, callVars>>

\* What the operations of one part leave alone
NotImageVars ==
    <<engineVars, vertexVars, bindingVars, passVars, bufferVars, callVars>>
NotVertexVars ==
    <<engineVars, imageVars, bindingVars, passVars, bufferVars, callVars>>
NotBindingVars ==
    <<engineVars, imageVars, vertexVars, passVars, bufferVars, callVars>>
NotPassVars ==
    <<engineVars, imageVars, vertexVars, bindingVars, bufferVars, callVars>>
NotBufferVars ==
    <<engineVars, imageVars, vertexVars, bindingVars, passVars, callVars>>
NotEngineVars == <<imageVars, vertexVars, bindingVars, passVars, bufferVars, callVars>>
NotCallVars == <<imageVars, vertexVars, bindingVars, passVars, bufferVars, engineVars>>

(***************************************************************************)
(* Bounds                                                                  *)
(***************************************************************************)
MaxParams == 2
MaxAttrs == 2
MaxBindings == 3
MaxSets == 2
MaxInputs == 1
MaxColors == 2
MaxMaps == 2
MaxCalls == 2
MaxDraws == 2
MaxDepth == 2
MaxLen == 3

(***************************************************************************)
(* image.rs: usages                                                        *)
(***************************************************************************)
ImageUsageFlags ==
    {"TRANSFER_SRC", "TRANSFER_DST", "SAMPLED", "STORAGE", "COLOR_ATTACHMENT",
     "DEPTH_STENCIL_ATTACHMENT", "INPUT_ATTACHMENT"}

\* image_usage!(name, flag): the marker types and the flag each stands for
MarkerFlag ==
    [TransferSrc |-> "TRANSFER_SRC", TransferDst |-> "TRANSFER_DST",
     SampledImage |-> "SAMPLED", Storage |-> "STORAGE",
     ColorAttachment |-> "COLOR_ATTACHMENT",
     DepthStencilAttachment |-> "DEPTH_STENCIL_ATTACHMENT",
     InputAttachment |-> "INPUT_ATTACHMENT"]

Markers == DOMAIN MarkerFlag

\* A value of some ImageUsageType: a marker (a unit value) or a DynImageUsage.
\* The DynImageUsage values callers pass are the combinations of DynFlags.
DynFlags == {"TRANSFER_SRC", "SAMPLED"}
DynUsages == SUBSET DynFlags

UsageValues ==
    {[ty |-> m, dyn |-> {}] : m \in Markers}
        \cup {[ty |-> "Dyn", dyn |-> s] : s \in DynUsages}

\* ImageUsageType::as_dyn
as_dyn(u) == IF u.ty = "Dyn" THEN u.dyn ELSE {MarkerFlag[u.ty]}

\* bitflags: a.contains(b) is (a & b) == b
contains(a, b) == (a \cap b) = b

\* The layouts the crate transitions an image to outside make_image
TransitionTargets == {"TRANSFER_SRC_OPTIMAL", "SHADER_READ_ONLY_OPTIMAL"}

\* The extents, formats and native handles of the images under study
Extents == {[width |-> 1, height |-> 1], [width |-> 2, height |-> 1]}
ImageFormats == {"R8G8B8A8_SRGB", "D32_SFLOAT"}
ImageHandles == {1, 2}

\* What an image is made with besides its usage: the format F, the extent and
\* the native handle the device returns
ImageArgs == [format : ImageFormats, extent : Extents, handle : ImageHandles]

\* The usage questions do not depend on these, so they are studied on one image
OneImageArgs ==
    {[format |-> "R8G8B8A8_SRGB", extent |-> [width |-> 1, height |-> 1], handle |-> 1]}

\* struct ImageLayoutTransition: the two layouts a transition declares
ImageLayoutTransition(old_layout, new_layout) ==
    [old_layout |-> old_layout, new_layout |-> new_layout]

NoTransition == ImageLayoutTransition("none", "none")

\* The transitions the attachment constructors declare
CrateTransitions == {ImageLayoutTransition("UNDEFINED", n) : n \in TransitionTargets}

NoImage == [none |-> TRUE]
NoView == [none |-> TRUE]
NoReq == [ty |-> "none", dyn |-> {}]
NoCreated == [by |-> "none", ty |-> "none", arg |-> {}, usage |-> {}]
NoLast == [issued |-> NoTransition, at |-> "none", op |-> "none", req |-> NoReq, stored |-> {}, ok |-> TRUE, res |-> NoImage]

\* Image::create_raw: a fresh image in layout UNDEFINED that stores `usage`.
\* `image` is the native image (the handle `h` the device returned and the
\* layout the device has it in), `layout` the layout the Image tracks; `ty` and
\* `format` are the type parameters U and F of the Image<U, F> it is returned as.
create_raw(usage, format, extent, ty, h) ==
    [image |-> [handle |-> h, layout |-> "UNDEFINED"], layout |-> "UNDEFINED",
     extent |-> extent, usage |-> usage, utype |-> ty, format |-> format]

\* Mutant of transition: the tracked layout is not updated.
transition_untracked(img, t, ok) ==
    IF ok THEN [img EXCEPT !.image.layout = t.new_layout] ELSE img

\* Image::transition: the native transition moves the native image to
\* t.new_layout when it succeeds, and the tracked layout follows it; a failed
\* one returns early through `?` and leaves the image as it was.
transition(img, t, ok) ==
    IF ok
      THEN [img EXCEPT !.image.layout = t.new_layout, !.layout = t.new_layout]
      ELSE img

\* Mutant of cast_unchecked: the image keeps only the flag of its new type.
cast_unchecked_narrowing(img, ty) ==
    [image |-> img.image, layout |-> img.layout, extent |-> img.extent,
     usage |-> IF ty = "Dyn" THEN img.usage ELSE img.usage \cap {MarkerFlag[ty]},
     utype |-> ty, format |-> img.format]

\* Mutant of cast_unchecked: the result is built like a fresh image.
cast_unchecked_fresh(img, ty) ==
    [image |-> img.image, layout |-> "UNDEFINED", extent |-> img.extent,
     usage |-> img.usage, utype |-> ty, format |-> img.format]

\* Image::cast_unchecked: every field is moved over, only the type changes.
cast_unchecked(img, ty) ==
    [image |-> img.image, layout |-> img.layout, extent |-> img.extent,
     usage |-> img.usage, utype |-> ty, format |-> img.format]

\* Image::cast_unchecked_ref / cast_unchecked_mut: the same object, retyped.
cast_unchecked_ref(img, ty) == [img EXCEPT !.utype = ty]

\* Mutant of cast_allowed: the test looks at the usage type parameter instead of
\* the stored usage set.
cast_allowed_by_type(img, u2) ==
    contains(IF img.utype = "Dyn" THEN img.usage ELSE {MarkerFlag[img.utype]},
             as_dyn(u2))

\* Mutant of cast_allowed: the operands of contains are swapped.
cast_allowed_swapped(img, u2) == contains(as_dyn(u2), img.usage)

\* The test of Image::cast_usage, cast_usage_ref and cast_usage_mut.
cast_allowed(img, u2) == contains(img.usage, as_dyn(u2))

\* ImageView::create: the view copies the usage set of its image.
view_create(img) ==
    [image_view |-> [of |-> img.image.handle], usage |-> img.usage,
     utype |-> img.utype, format |-> img.format]

\* ImageView::cast_unchecked
view_cast_unchecked(v, ty) ==
    [image_view |-> v.image_view, usage |-> v.usage, utype |-> ty, format |-> v.format]

\* ImageView::cast_unchecked_ref / cast_unchecked_mut
view_cast_unchecked_ref(v, ty) == [v EXCEPT !.utype = ty]

\* The test of ImageView::cast_usage, cast_usage_ref and cast_usage_mut.
view_cast_allowed(v, u2) == contains(v.usage, as_dyn(u2))

\* SampleCount1 and the MultiSampleCountType markers
SampleCount1 == 1

\* An image of an attachment: the Image of image.rs with the format and sample
\* count of its type and the native handle it wraps.
AttImage(img, format, samples, handle) ==
    [img |-> img, format |-> format, samples |-> samples, handle |-> handle]

\* ImageView::create on such an image
AttView(ai) ==
    [view |-> view_create(ai.img), image |-> ai.handle, format |-> ai.format,
     samples |-> ai.samples]

\* Mutant of attachment_image: the image is created with `usages` alone.
attachment_image_plain_usages(usages, marker, layout, format, samples, extent, handle) ==
    LET img0 == create_raw(as_dyn([ty |-> "Dyn", dyn |-> usages]), format, extent,
                           "Dyn", handle)
        t == ImageLayoutTransition("UNDEFINED", layout)
        img1 == transition(img0, t, TRUE)
        castOk == cast_allowed(img1, [ty |-> marker, dyn |-> {}])
        img2 == IF castOk THEN cast_unchecked(img1, marker) ELSE img1
        ai == AttImage(img2, format, samples, handle)
    IN  [panic |-> ~castOk, image |-> ai, view |-> AttView(ai),
         issued |-> t, at |-> img0.layout]

\* The body shared by ColorAttachment::create, both halves of
\* MultisampledColorAttachment::create and DepthAttachment::create:
\* Image::create(usages | flag), transition to `layout`,
\* cast_usage(marker).unwrap(), ImageView::create.
attachment_image(usages, marker, layout, format, samples, extent, handle) ==
    LET img0 == create_raw(as_dyn([ty |-> "Dyn", dyn |-> usages \cup {MarkerFlag[marker]}]),
                           format, extent, "Dyn", handle)
        t == ImageLayoutTransition("UNDEFINED", layout)
        img1 == transition(img0, t, TRUE)
        castOk == cast_allowed(img1, [ty |-> marker, dyn |-> {}])
        img2 == IF castOk THEN cast_unchecked(img1, marker) ELSE img1
        ai == AttImage(img2, format, samples, handle)
    IN  [panic |-> ~castOk, image |-> ai, view |-> AttView(ai),
         issued |-> t, at |-> img0.layout]

(***************************************************************************)
(* image.rs: operations                                                    *)
(***************************************************************************)
\* Image::create(context, usage, extent)
ImageCreate(u, F, extent, h, ok) ==
    /\ image = NoImage
    /\ image' = IF ok THEN create_raw(as_dyn(u), F, extent, u.ty, h) ELSE NoImage
    /\ created' = IF ok
                     THEN [by |-> "create", ty |-> u.ty, arg |-> as_dyn(u),
                           usage |-> image'.usage]
                     ELSE NoCreated
    /\ last' = [issued |-> NoTransition, at |-> "none", op |-> "create", req |-> u, stored |-> {}, ok |-> ok, res |-> image']
    /\ UNCHANGED <<view, sampled>>
    /\ UNCHANGED NotImageVars

\* The transition Image::make_image declares
make_image_transition == ImageLayoutTransition("UNDEFINED", "TRANSFER_DST_OPTIMAL")

\* Image::make_image(context, usage, extent, data): create_raw, transition to
\* TRANSFER_DST_OPTIMAL, staging buffer, copy; any failing step returns Err and
\* drops the half-made image.
MakeImage(u, F, extent, h, failAt) ==
    LET img0 == create_raw(as_dyn(u) \cup {"TRANSFER_DST"}, F, extent, u.ty, h)
        img1 == transition(img0, make_image_transition, TRUE)
        img2 == [img1 EXCEPT !.layout = "TRANSFER_DST_OPTIMAL"]
        ok == failAt = "none"
    IN  /\ image = NoImage
        /\ image' = IF ok THEN img2 ELSE NoImage
        /\ created' = IF ok
                         THEN [by |-> "make_image", ty |-> u.ty, arg |-> as_dyn(u),
                               usage |-> image'.usage]
                         ELSE NoCreated
        /\ last' = [issued |-> IF failAt = "create" THEN NoTransition ELSE make_image_transition,
                    at |-> IF failAt = "create" THEN "none" ELSE img0.layout,
                    op |-> "make_image", req |-> u, stored |-> {}, ok |-> ok, res |-> image']
        /\ UNCHANGED <<view, sampled>>
    /\ UNCHANGED NotImageVars

\* The attachment constructors: the marker type and the layout of each
AttachmentKinds ==
    {[marker |-> "ColorAttachment", layout |-> "TRANSFER_SRC_OPTIMAL"],
     [marker |-> "DepthStencilAttachment", layout |-> "DEPTH_STENCIL_ATTACHMENT_OPTIMAL"]}

\* ColorAttachment::create, either half of MultisampledColorAttachment::create
\* and DepthAttachment::create, for one image: a failing native call returns
\* Err and drops the image, a failing cast panics.
AttachmentImageCreate(k, usages, F, extent, h, ok) ==
    LET a == attachment_image(usages, k.marker, k.layout, F, SampleCount1, extent, h)
        made == ok /\ ~a.panic
    IN  /\ image = NoImage
        /\ image' = IF made THEN a.image.img ELSE NoImage
        /\ view' = IF made THEN a.view.view ELSE NoView
        /\ created' = IF made
                         THEN [by |-> "attachment", ty |-> "Dyn", arg |-> usages,
                               usage |-> image'.usage]
                         ELSE NoCreated
        /\ last' = [issued |-> a.issued, at |-> a.at, op |-> "attachment",
                    req |-> NoReq, stored |-> {}, ok |-> made, res |-> image']
        /\ UNCHANGED sampled
        /\ UNCHANGED NotImageVars

\* Image::cast_usage(self, usage): Ok(retyped image) or Err(self)
CastUsage(u2) ==
    /\ image # NoImage
    /\ ~sampled
    /\ LET ok == cast_allowed(image, u2)
       IN  /\ image' = IF ok THEN cast_unchecked(image, u2.ty) ELSE image
           /\ last' = [issued |-> NoTransition, at |-> "none", op |-> "cast_usage", req |-> u2, stored |-> image.usage, ok |-> ok, res |-> image']
    /\ UNCHANGED <<view, sampled, created>>
    /\ UNCHANGED NotImageVars

\* Image::cast_usage_ref(&self, usage): Some(retyped reference) or None
CastUsageRef(u2) ==
    /\ image # NoImage
    /\ LET ok == cast_allowed(image, u2)
       IN  last' = [issued |-> NoTransition, at |-> "none", op |-> "cast_usage_ref", req |-> u2, stored |-> image.usage, ok |-> ok,
                    res |-> IF ok THEN cast_unchecked_ref(image, u2.ty) ELSE NoImage]
    /\ UNCHANGED <<image, view, sampled, created>>
    /\ UNCHANGED NotImageVars

\* Image::cast_usage_mut(&mut self, usage): Some(retyped reference) or None
CastUsageMut(u2) ==
    /\ image # NoImage
    /\ LET ok == cast_allowed(image, u2)
       IN  last' = [issued |-> NoTransition, at |-> "none", op |-> "cast_usage_mut", req |-> u2, stored |-> image.usage, ok |-> ok,
                    res |-> IF ok THEN cast_unchecked_ref(image, u2.ty) ELSE NoImage]
    /\ UNCHANGED <<image, view, sampled, created>>
    /\ UNCHANGED NotImageVars

\* Image::transition(&mut self, context, transition), crate-internal
Transition(t, ok) ==
    /\ image # NoImage
    /\ ~sampled
    /\ image' = transition(image, t, ok)
    /\ last' = [issued |-> t, at |-> image.layout, op |-> "transition", req |-> NoReq, stored |-> image.usage, ok |-> ok, res |-> image']
    /\ UNCHANGED <<view, sampled, created>>
    /\ UNCHANGED NotImageVars

\* ImageView::create(&image)
ViewCreate(ok) ==
    /\ image # NoImage
    /\ ~sampled
    /\ view' = IF ok THEN view_create(image) ELSE view
    /\ last' = [issued |-> NoTransition, at |-> "none", op |-> "view_create", req |-> NoReq, stored |-> image.usage, ok |-> ok, res |-> NoImage]
    /\ UNCHANGED <<image, sampled, created>>
    /\ UNCHANGED NotImageVars

\* ImageView::cast_usage(self, usage)
ViewCastUsage(u2) ==
    /\ view # NoView
    /\ ~sampled
    /\ LET ok == view_cast_allowed(view, u2)
       IN  /\ view' = IF ok THEN view_cast_unchecked(view, u2.ty) ELSE view
           /\ last' = [issued |-> NoTransition, at |-> "none", op |-> "view_cast_usage", req |-> u2, stored |-> view.usage, ok |-> ok, res |-> view']
    /\ UNCHANGED <<image, sampled, created>>
    /\ UNCHANGED NotImageVars

\* ImageView::cast_usage_ref(&self, usage)
ViewCastUsageRef(u2) ==
    /\ view # NoView
    /\ LET ok == view_cast_allowed(view, u2)
       IN  last' = [issued |-> NoTransition, at |-> "none", op |-> "view_cast_usage_ref", req |-> u2, stored |-> view.usage, ok |-> ok,
                    res |-> IF ok THEN view_cast_unchecked_ref(view, u2.ty) ELSE NoView]
    /\ UNCHANGED <<image, view, sampled, created>>
    /\ UNCHANGED NotImageVars

\* ImageView::cast_usage_mut(&mut self, usage)
ViewCastUsageMut(u2) ==
    /\ view # NoView
    /\ LET ok == view_cast_allowed(view, u2)
       IN  last' = [issued |-> NoTransition, at |-> "none", op |-> "view_cast_usage_mut", req |-> u2, stored |-> view.usage, ok |-> ok,
                    res |-> IF ok THEN view_cast_unchecked_ref(view, u2.ty) ELSE NoView]
    /\ UNCHANGED <<image, view, sampled, created>>
    /\ UNCHANGED NotImageVars

\* Mutant of sampled_image_transition: the old layout is taken to be UNDEFINED.
sampled_image_transition_from_undefined(img) ==
    ImageLayoutTransition("UNDEFINED", "SHADER_READ_ONLY_OPTIMAL")

\* The transition SampledImage::create declares for the image it is given
sampled_image_transition(img) ==
    ImageLayoutTransition(img.layout, "SHADER_READ_ONLY_OPTIMAL")

\* SampledImage::create(context, image): transition to SHADER_READ_ONLY_OPTIMAL
\* unless already there, then a view and a sampler. The image is moved in, so a
\* failing step drops it.
SampledImageCreate(failAt) ==
    /\ image # NoImage
    /\ ~sampled
    /\ image.utype = "SampledImage"
    /\ failAt = "transition" => image.layout # "SHADER_READ_ONLY_OPTIMAL"
    /\ LET img1 == IF image.layout # "SHADER_READ_ONLY_OPTIMAL"
                      THEN transition(image, sampled_image_transition(image), TRUE)
                      ELSE image
           ok == failAt = "none"
       IN  /\ image' = IF ok THEN img1 ELSE NoImage
           /\ view' = IF ok THEN view_create(img1) ELSE NoView
           /\ sampled' = ok
           /\ created' = IF ok THEN created ELSE NoCreated
           /\ last' = [issued |-> IF image.layout # "SHADER_READ_ONLY_OPTIMAL"
                                      THEN sampled_image_transition(image)
                                      ELSE NoTransition,
                        at |-> IF image.layout # "SHADER_READ_ONLY_OPTIMAL"
                                  THEN image.layout ELSE "none",
                        op |-> "sampled_create", req |-> NoReq, stored |-> image.usage, ok |-> ok,
                        res |-> image']
    /\ UNCHANGED NotImageVars
DropImage ==
    /\ image # NoImage
    /\ image' = NoImage
    /\ view' = NoView
    /\ sampled' = FALSE
    /\ created' = NoCreated
    /\ last' = NoLast
    /\ UNCHANGED NotImageVars

(***************************************************************************)
(* SpecImage: one image, its view and the operations on them               *)
(***************************************************************************)
InitImageVars ==
    /\ image = NoImage
    /\ view = NoView
    /\ sampled = FALSE
    /\ created = NoCreated
    /\ last = NoLast

NextImage ==
    \/ \E u \in UsageValues, a \in OneImageArgs, ok \in BOOLEAN :
            ImageCreate(u, a.format, a.extent, a.handle, ok)
    \/ \E u \in UsageValues, a \in OneImageArgs,
          f \in {"none", "create", "transition", "staging", "copy"} :
            MakeImage(u, a.format, a.extent, a.handle, f)
    \/ \E u2 \in UsageValues : CastUsage(u2)
    \/ \E u2 \in UsageValues : CastUsageRef(u2)
    \/ \E u2 \in UsageValues : CastUsageMut(u2)
    \/ \E t \in CrateTransitions, ok \in BOOLEAN : Transition(t, ok)
    \/ \E ok \in BOOLEAN : ViewCreate(ok)
    \/ \E u2 \in UsageValues : ViewCastUsage(u2)
    \/ \E u2 \in UsageValues : ViewCastUsageRef(u2)
    \/ \E u2 \in UsageValues : ViewCastUsageMut(u2)
    \/ \E f \in {"none", "transition", "view", "sampler"} : SampledImageCreate(f)
    \/ DropImage

(***************************************************************************)
(* SpecLayout: one image through creation, transitions and owning casts    *)
(***************************************************************************)
\* The usages asked for here: two markers and two DynImageUsage values
LayoutUsages ==
    {[ty |-> "SampledImage", dyn |-> {}], [ty |-> "TransferSrc", dyn |-> {}],
     [ty |-> "Dyn", dyn |-> {"SAMPLED"}], [ty |-> "Dyn", dyn |-> DynFlags]}

NextLayout ==
    \/ \E u \in LayoutUsages, a \in ImageArgs, ok \in BOOLEAN :
            ImageCreate(u, a.format, a.extent, a.handle, ok)
    \/ \E u \in LayoutUsages, a \in ImageArgs,
          f \in {"none", "create", "transition", "staging", "copy"} :
            MakeImage(u, a.format, a.extent, a.handle, f)
    \/ \E k \in AttachmentKinds, cu \in DynUsages, a \in ImageArgs, ok \in BOOLEAN :
            AttachmentImageCreate(k, cu, a.format, a.extent, a.handle, ok)
    \/ \E u2 \in LayoutUsages : CastUsage(u2)
    \/ \E t \in CrateTransitions, ok \in BOOLEAN : Transition(t, ok)
    \/ \E ok \in BOOLEAN : ViewCreate(ok)
    \/ \E u2 \in LayoutUsages : ViewCastUsage(u2)
    \/ \E f \in {"none", "transition", "view", "sampler"} : SampledImageCreate(f)
    \/ DropImage

ImageCasts == {"cast_usage", "cast_usage_ref", "cast_usage_mut"}
ViewCasts == {"view_cast_usage", "view_cast_usage_ref", "view_cast_usage_mut"}

\* C3: a usage cast of an image or of an image view succeeds exactly when every
\* flag of the requested usage is in the usage set the object stores, whatever
\* its usage type parameter is; a request for no flag at all always succeeds.
C3_CastIffStoredContains ==
    last.op \in ImageCasts \cup ViewCasts =>
        /\ last.ok <=> (\A f \in ImageUsageFlags :
                            f \in as_dyn(last.req) => f \in last.stored)
        /\ as_dyn(last.req) = {} => last.ok

\* A cast by reference to a marker type other than the image's own marker type
\* has succeeded.
C3_Witness ==
    /\ last.op = "cast_usage_ref"
    /\ last.ok
    /\ image.utype \in Markers
    /\ last.req.ty \in Markers \ {image.utype}

\* C4: the usage set of an image never changes after creation, and the view
\* made from it, and every reference a cast hands out, carry that same set.
C4_UsageFixedAtCreation ==
    /\ image # NoImage => image.usage = created.usage
    /\ (image # NoImage /\ view # NoView) => view.usage = created.usage
    /\ (last.op \in ImageCasts \cup ViewCasts /\ last.ok) =>
            last.res.usage = created.usage

\* An image made as DynImageUsage was cast to SampledImage, moved into a
\* SampledImage (transition and view included) and still has its two flags.
C4_Witness ==
    /\ sampled
    /\ view # NoView
    /\ created.ty = "Dyn"
    /\ image.utype = "SampledImage"
    /\ image.layout = "SHADER_READ_ONLY_OPTIMAL"
    /\ Cardinality(image.usage) >= 2

\* C5: an image (or a reference to one) typed with a marker stores that
\* marker's flag; make_image(usage) stores usage plus TRANSFER_DST and
\* create(usage) stores exactly usage.
C5_TypedUsageIsStored ==
    /\ (image # NoImage /\ image.utype \in Markers) =>
            MarkerFlag[image.utype] \in image.usage
    /\ (last.op \in ImageCasts /\ last.ok /\ last.res.utype \in Markers) =>
            MarkerFlag[last.res.utype] \in last.res.usage
    /\ (image # NoImage /\ created.by = "create") => image.usage = created.arg
    /\ (image # NoImage /\ created.by = "make_image") =>
            image.usage = created.arg \cup {"TRANSFER_DST"}

\* An image made by make_image as DynImageUsage now has a marker type.
C5_Witness ==
    /\ image # NoImage
    /\ created.by = "make_image"
    /\ created.ty = "Dyn"
    /\ image.utype \in Markers
    /\ last.op = "cast_usage"
    /\ last.ok

\* C17: a usage cast changes nothing but the usage type parameter. A failed
\* cast_usage hands back the image it was given, a successful one an image with
\* the same native image, tracked layout, extent, usage set and format; the
\* same holds for the cast of an image view.
C17_CastChangesOnlyType ==
    [][/\ (last'.op = "cast_usage" /\ image # NoImage) =>
              IF last'.ok
                THEN /\ image'.image = image.image
                     /\ image'.layout = image.layout
                     /\ image'.extent = image.extent
                     /\ image'.usage = image.usage
                     /\ image'.format = image.format
                     /\ image'.utype = last'.req.ty
                ELSE image' = image
       /\ (last'.op = "view_cast_usage" /\ view # NoView) =>
              IF last'.ok
                THEN /\ view'.image_view = view.image_view
                     /\ view'.usage = view.usage
                     /\ view'.format = view.format
                     /\ view'.utype = last'.req.ty
                ELSE view' = view]_vars

\* An image that make_image created as DynImageUsage, on the second native
\* handle and in layout TRANSFER_DST_OPTIMAL, was cast to a marker type.
C17_Witness ==
    /\ last.op = "cast_usage"
    /\ last.ok
    /\ created.by = "make_image"
    /\ created.ty = "Dyn"
    /\ image.utype \in Markers
    /\ image.layout = "TRANSFER_DST_OPTIMAL"
    /\ image.image.handle = 2

\* C18: the layout an Image tracks is the layout its native image was last
\* successfully transitioned to: UNDEFINED after create; after
\* Image::transition the declared new layout when the native transition
\* succeeded and the layout from before when it failed; and the same after any
\* sequence of create, make_image, transition and SampledImage::create.
C18_TrackedLayoutIsNative ==
    /\ image # NoImage => image.layout = image.image.layout
    /\ (last.op = "create" /\ last.ok) => image.layout = "UNDEFINED"
    /\ (last.op = "transition" /\ last.ok) => image.layout = last.issued.new_layout
    /\ (last.op = "transition" /\ ~last.ok) => image.layout = last.at
    /\ (last.op = "make_image" /\ last.ok) => image.layout = last.issued.new_layout

\* A transition failed on an image that an earlier transition had moved out of
\* UNDEFINED.
C18_Witness ==
    /\ last.op = "transition"
    /\ ~last.ok
    /\ image.layout = "TRANSFER_SRC_OPTIMAL"
    /\ last.issued.new_layout = "SHADER_READ_ONLY_OPTIMAL"

\* C19: every transition issued by make_image, SampledImage::create and the
\* attachment constructors declares as old layout the layout the image tracks
\* at that moment.
C19_OldLayoutIsTracked ==
    (last.op \in {"make_image", "sampled_create", "attachment"}
        /\ last.issued # NoTransition) =>
            last.issued.old_layout = last.at

\* SampledImage::create was given an image that make_image had left in
\* TRANSFER_DST_OPTIMAL and has transitioned it.
C19_Witness ==
    /\ last.op = "sampled_create"
    /\ last.ok
    /\ last.at = "TRANSFER_DST_OPTIMAL"
    /\ last.issued.new_layout = "SHADER_READ_ONLY_OPTIMAL"
    /\ created.by = "make_image"

(***************************************************************************)
(* function.rs: lowering of vertex layouts                                 *)
(***************************************************************************)
AttributeFormats == {"Vec2F", "Vec3F", "Vec4F"}

\* AttributeFormat::size
size(format) ==
    CASE format = "Vec2F" -> 4 * 2
      [] format = "Vec3F" -> 4 * 3
      [] format = "Vec4F" -> 4 * 4

\* From<AttributeFormat> for vk::Format
attribute_vk_format(format) ==
    CASE format = "Vec2F" -> "R32G32_SFLOAT"
      [] format = "Vec3F" -> "R32G32B32_SFLOAT"
      [] format = "Vec4F" -> "R32G32B32A32_SFLOAT"

\* parameter.attributes.iter().map(|p| p.format.size()).sum()
RECURSIVE stride_sum(_)
stride_sum(attrs) ==
    IF attrs = <<>> THEN 0 ELSE size(Head(attrs)) + stride_sum(Tail(attrs))

\* Mutant of attribute_loop: the offset runs on like the location does, it is
\* not advanced by the size of the attribute.
RECURSIVE attribute_loop_unit_offset(_, _, _, _, _)
attribute_loop_unit_offset(attrs, i, j, location, offset) ==
    IF j > Len(attrs)
      THEN <<>>
      ELSE <<[location |-> location, binding |-> i,
              format |-> attribute_vk_format(attrs[j]), offset |-> offset]>>
             \o attribute_loop_unit_offset(attrs, i, j + 1, location + 1, offset + 1)

\* The inner loop of parameter_descs_to_raw over the attributes of parameter i,
\* from attribute j on, with the running `location` and `offset`.
RECURSIVE attribute_loop(_, _, _, _, _)
attribute_loop(attrs, i, j, location, offset) ==
    IF j > Len(attrs)
      THEN <<>>
      ELSE <<[location |-> location, binding |-> i,
              format |-> attribute_vk_format(attrs[j]), offset |-> offset]>>
             \o attribute_loop(attrs, i, j + 1, location + 1, offset + size(attrs[j]))

\* The outer loop of parameter_descs_to_raw from parameter k (1-based here, so
\* the enumerate() index is k - 1); `location` runs on across parameters.
RECURSIVE parameter_loop(_, _, _)
parameter_loop(parameters, k, location) ==
    IF k > Len(parameters)
      THEN <<<<>>, <<>>>>
      ELSE LET attrs == parameters[k]
               b == [binding |-> k - 1, stride |-> stride_sum(attrs),
                     input_rate |-> "VERTEX"]
               a == attribute_loop(attrs, k - 1, 1, location, 0)
               rest == parameter_loop(parameters, k + 1, location + Len(attrs))
           IN  <<<<b>> \o rest[1], a \o rest[2]>>

\* parameter_descs_to_raw(parameters) -> (bindings, attributes)
parameter_descs_to_raw(parameters) == parameter_loop(parameters, 1, 0)

SeqsUpTo(S, n) == UNION {[1..k -> S] : k \in 0..n}

\* ParameterDesc: the attribute formats of one vertex parameter
ParameterDescs == SeqsUpTo(AttributeFormats, MaxAttrs)

NoType == [none |-> TRUE]
NoBuffer == [none |-> TRUE]

IdleVertexVars ==
    /\ vparams = <<>>
    /\ vraw = <<>>
    /\ vtype = NoType
    /\ vbuffer = NoBuffer

InitVertexVars ==
    /\ vparams \in SeqsUpTo(ParameterDescs, MaxParams)
    /\ vraw = <<>>
    /\ vtype = NoType
    /\ vbuffer = NoBuffer

\* FunctionDef::create lowers the vertex parameters of the prototype.
LowerParameters ==
    /\ vraw = <<>>
    /\ vraw' = parameter_descs_to_raw(vparams)
    /\ UNCHANGED <<vparams, vtype, vbuffer>>
    /\ UNCHANGED NotVertexVars

NextVertex == LowerParameters

\* The byte sizes the vertex formats are said to have
ClaimedBytes == [Vec2F |-> 8, Vec3F |-> 12, Vec4F |-> 16]

\* The bytes of the first n attributes of a parameter
RECURSIVE BytesOfFirst(_, _)
BytesOfFirst(attrs, n) ==
    IF n = 0 THEN 0 ELSE BytesOfFirst(attrs, n - 1) + ClaimedBytes[attrs[n]]

\* The number of attributes in the first n parameters
RECURSIVE AttributesInFirst(_, _)
AttributesInFirst(ps, n) ==
    IF n = 0 THEN 0 ELSE AttributesInFirst(ps, n - 1) + Len(ps[n])

\* C6: parameter k (counted from 0) gets one binding description numbered k
\* whose stride is the byte size of its attributes; locations count 0, 1, 2, ...
\* through all attributes of all parameters; the offset of an attribute is the
\* byte size of the attributes before it in its own parameter, so each
\* attribute ends within the stride of its binding.
C6_VertexLowering ==
    vraw # <<>> =>
        LET bs == vraw[1]
            as == vraw[2]
        IN  /\ Len(bs) = Len(vparams)
            /\ Len(as) = AttributesInFirst(vparams, Len(vparams))
            /\ \A k \in 1..Len(vparams) :
                   /\ bs[k].binding = k - 1
                   /\ bs[k].stride = BytesOfFirst(vparams[k], Len(vparams[k]))
                   /\ \A j \in 1..Len(vparams[k]) :
                          LET n == AttributesInFirst(vparams, k - 1) + j
                          IN  /\ as[n].location = n - 1
                              /\ as[n].binding = k - 1
                              /\ as[n].offset = BytesOfFirst(vparams[k], j - 1)
                              /\ as[n].offset + ClaimedBytes[vparams[k][j]]
                                     <= bs[k].stride

\* Two parameters of two attributes each were lowered: the second parameter
\* starts at location 2 and at offset 0.
C6_Witness ==
    /\ vraw # <<>>
    /\ Len(vparams) = 2
    /\ Len(vparams[1]) = 2
    /\ Len(vparams[2]) = 2
    /\ vraw[2][3].location = 2
    /\ vraw[2][3].offset = 0
    /\ vraw[2][4].offset > 0

(***************************************************************************)
(* SpecStride: a vertex input type, its binding and a buffer of it         *)
(***************************************************************************)
\* The types that implement Parameter: Vec2, Vec3, Vec4 (nalgebra vectors of
\* f32) and the pairs (A, B) of such types, one side of which may again be a
\* pair, nested up to depth d
VecTypes == {[vec |-> "Vec2"], [vec |-> "Vec3"], [vec |-> "Vec4"]}

RECURSIVE ParameterTypes(_)
ParameterTypes(d) ==
    IF d = 0
      THEN VecTypes
      ELSE ParameterTypes(d - 1)
             \cup {[a |-> x, b |-> y] : x \in ParameterTypes(d - 1), y \in VecTypes}
             \cup {[a |-> x, b |-> y] : x \in VecTypes, y \in ParameterTypes(d - 1)}

IsPair(T) == "a" \in DOMAIN T

\* Parameter::attributes for Vec2, Vec3, Vec4 and for (A, B)
RECURSIVE attributes(_)
attributes(T) ==
    IF IsPair(T)
      THEN attributes(T.a) \o attributes(T.b)
      ELSE <<CASE T.vec = "Vec2" -> "Vec2F"
               [] T.vec = "Vec3" -> "Vec3F"
               [] T.vec = "Vec4" -> "Vec4F">>

round_up(n, align) == ((n + align - 1) \div align) * align

\* std::mem::align_of::<T>(): every type here is made of f32
align_of(T) == 4

\* Mutant of size_of: a Vec3 takes the room of a Vec4.
RECURSIVE size_of_vec3_padded(_)
size_of_vec3_padded(T) ==
    IF IsPair(T)
      THEN round_up(round_up(size_of_vec3_padded(T.a), align_of(T.b))
                      + size_of_vec3_padded(T.b),
                    align_of(T))
      ELSE CASE T.vec = "Vec2" -> 4 * 2
             [] T.vec = "Vec3" -> 4 * 4
             [] T.vec = "Vec4" -> 4 * 4

\* std::mem::size_of::<T>(): a vector is an array of f32; the fields of a
\* pair are laid out each at a multiple of its alignment and the size is
\* rounded up to the alignment of the pair.
RECURSIVE size_of(_)
size_of(T) ==
    IF IsPair(T)
      THEN round_up(round_up(size_of(T.a), align_of(T.b)) + size_of(T.b),
                    align_of(T))
      ELSE CASE T.vec = "Vec2" -> 4 * 2
             [] T.vec = "Vec3" -> 4 * 3
             [] T.vec = "Vec4" -> 4 * 4

\* Buffer::make_array_buffer(context, data) for data of `len` elements of T
make_array_buffer(T, len) == [len |-> len, size |-> len * size_of(T)]

\* A function prototype with vertex input type vtype: FunctionDef::create
\* hands one ParameterDesc with its attributes to parameter_descs_to_raw.
InitStrideVars ==
    /\ vtype \in ParameterTypes(MaxDepth)
    /\ vparams = <<attributes(vtype)>>
    /\ vraw = <<>>
    /\ vbuffer = NoBuffer

\* Buffer::make_array_buffer for a vertex buffer; data.len() > 0 is asserted.
MakeArrayBuffer(len) ==
    /\ vtype # NoType
    /\ vbuffer = NoBuffer
    /\ len > 0
    /\ vbuffer' = make_array_buffer(vtype, len)
    /\ UNCHANGED <<vparams, vraw, vtype>>
    /\ UNCHANGED NotVertexVars

NextStride ==
    \/ LowerParameters
    \/ \E len \in 1..MaxLen : MakeArrayBuffer(len)

\* C22: the stride of the vertex binding equals the byte size of one element
\* of a vertex buffer of the vertex input type (size / len), so vertex k of the
\* buffer starts at byte k * stride and the last one ends at size.
C22_StrideIsElementSize ==
    (vraw # <<>> /\ vbuffer # NoBuffer) =>
        LET stride == vraw[1][1].stride
        IN  /\ Len(vraw[1]) = 1
            /\ vbuffer.size % vbuffer.len = 0
            /\ stride = vbuffer.size \div vbuffer.len
            /\ \A k \in 0..(vbuffer.len - 1) :
                   k * stride + stride <= vbuffer.size
            /\ vbuffer.len * stride = vbuffer.size

\* The binding of ((Vec2, Vec3), Vec4) was lowered and a buffer of three such
\* vertices made.
C22_Witness ==
    /\ vraw # <<>>
    /\ vtype = [a |-> [a |-> [vec |-> "Vec2"], b |-> [vec |-> "Vec3"]],
                b |-> [vec |-> "Vec4"]]
    /\ vbuffer # NoBuffer
    /\ vbuffer.len = 3
    /\ vraw[1][1].stride = 36

(***************************************************************************)
(* function.rs: descriptor bindings, arguments and descriptor writes       *)
(***************************************************************************)
\* The types that implement Binding: SampledImage<F>, Vec3, Mat4, Mvp
BindingTypes == {"SampledImage", "Vec3", "Mat4", "Mvp"}

\* Binding::description
description(b) ==
    IF b = "SampledImage"
      THEN [binding_type |-> "SampledImage", count |-> 1]
      ELSE [binding_type |-> "Uniform", count |-> 1]

\* Bindings::descriptions for (), (A,), (A, B), (A, B, C)
descriptions(bt) == [i \in 1..Len(bt) |-> description(bt[i])]

\* From<BindingType> for vk::DescriptorType
binding_vk_type(t) ==
    CASE t = "Uniform" -> "UNIFORM_BUFFER"
      [] t = "SampledImage" -> "COMBINED_IMAGE_SAMPLER"

\* Mutant of bindings_descs_to_raw: the bindings are numbered from 1.
bindings_descs_to_raw_from_one(bindings) ==
    [i \in 1..Len(bindings) |->
        [binding |-> i,
         descriptor_type |-> binding_vk_type(bindings[i].binding_type),
         descriptor_count |-> bindings[i].count,
         stage_flags |-> {"VERTEX", "FRAGMENT"}]]

\* bindings_descs_to_raw: one layout binding per description, numbered by
\* enumerate()
bindings_descs_to_raw(bindings) ==
    [i \in 1..Len(bindings) |->
        [binding |-> i - 1,
         descriptor_type |-> binding_vk_type(bindings[i].binding_type),
         descriptor_count |-> bindings[i].count,
         stage_flags |-> {"VERTEX", "FRAGMENT"}]]

\* Binding::Argument: the argument type a binding asks for
argument_type(b) ==
    IF b = "SampledImage" THEN "SampledImage" ELSE "UniformBuffer"

\* Argument::as_write for Buffer<UniformBufferUsage, T> and SampledImage<F>
as_write(arg) ==
    IF arg = "SampledImage" THEN "SampledImage" ELSE "Uniform"

\* Arguments::as_writes for (), (A,), (A, B), (A, B, C)
as_writes(args) == [i \in 1..Len(args) |-> as_write(args[i])]

\* Mutant of write_descriptor_type: the two arms are swapped.
write_descriptor_type_swapped(w) ==
    CASE w = "Uniform" -> "COMBINED_IMAGE_SAMPLER"
      [] w = "SampledImage" -> "UNIFORM_BUFFER"

\* WriteArgument::descriptor_type
write_descriptor_type(w) ==
    CASE w = "Uniform" -> "UNIFORM_BUFFER"
      [] w = "SampledImage" -> "COMBINED_IMAGE_SAMPLER"

\* writes_to_raw(set, writes): one vk::WriteDescriptorSet per write
writes_to_raw(set, writes) ==
    [i \in 1..Len(writes) |->
        [dst_set |-> set, dst_binding |-> i - 1, dst_array_element |-> 0,
         descriptor_type |-> write_descriptor_type(writes[i]),
         info |-> IF writes[i] = "Uniform" THEN "buffer_info" ELSE "image_info"]]

NoLayout == [made |-> FALSE, bindings |-> <<>>]
NoPipeline == [made |-> FALSE]

\* The blend state create_blend_states repeats for every color attachment
DefaultBlendState ==
    [blend_enable |-> TRUE,
     src_color_blend_factor |-> "SRC_ALPHA",
     dst_color_blend_factor |-> "ONE_MINUS_SRC_ALPHA",
     color_blend_op |-> "ADD",
     src_alpha_blend_factor |-> "ONE",
     dst_alpha_blend_factor |-> "ZERO",
     alpha_blend_op |-> "ADD",
     color_write_mask |-> {"R", "G", "B", "A"}]

\* Mutant of create_blend_states: one state per attachment description, the
\* resolve descriptions included.
create_blend_states_per_description(g) ==
    [i \in 1..(Len(g.colors)
                + Cardinality({j \in 1..Len(g.colors) : g.colors[j].kind = "Multisampled"}))
        |-> DefaultBlendState]

\* create_blend_states::<G>(): vec![default; G::ColorAttachments::desc().len()]
create_blend_states(g) == [i \in 1..Len(g.colors) |-> DefaultBlendState]

\* Mutant of create_multisample_state: always a single sample.
create_multisample_state_single(g) ==
    [rasterization_samples |-> 1,
     sample_shading_enable |-> FALSE,
     alpha_to_coverage_enable |-> FALSE,
     alpha_to_one_enable |-> FALSE]

\* create_multisample_state::<G>()
create_multisample_state(g) ==
    [rasterization_samples |-> g.samples,
     sample_shading_enable |-> FALSE,
     alpha_to_coverage_enable |-> FALSE,
     alpha_to_one_enable |-> FALSE]
NoWrites == [made |-> FALSE, ok |-> FALSE, set |-> 0, writes |-> <<>>]

IdleBindingVars ==
    /\ btuple = <<>>
    /\ blayout = NoLayout
    /\ pipeline = NoPipeline
    /\ nextSet = 1
    /\ argWrites = NoWrites

InitBindingVars ==
    /\ btuple \in SeqsUpTo(BindingTypes, MaxBindings)
    /\ blayout = NoLayout
    /\ pipeline = NoPipeline
    /\ nextSet = 1
    /\ argWrites = NoWrites

\* FunctionDef::create(context, render_pass, function_impl): the descriptor set
\* layout is made from the lowered descriptions of F::Bindings, the pipeline
\* from the blend and multisample states of F::RenderPass; a failing native
\* call leaves no FunctionDef.
FunctionDefCreate(ok) ==
    /\ passDesc.made
    /\ ~blayout.made
    /\ blayout' = IF ok
                     THEN [made |-> TRUE,
                           bindings |-> bindings_descs_to_raw(descriptions(btuple))]
                     ELSE NoLayout
    /\ pipeline' = IF ok
                      THEN [made |-> TRUE,
                            color_blend_states |-> create_blend_states(proto),
                            multisample_state |-> create_multisample_state(proto)]
                      ELSE NoPipeline
    /\ UNCHANGED <<btuple, nextSet, argWrites>>
    /\ UNCHANGED NotBindingVars

\* FunctionDef::make_arguments(context, arguments): allocate a set, lower the
\* writes, write them. The type of `arguments` is <F::Bindings as
\* Bindings>::Arguments, so argument i has the type binding i asks for.
MakeArguments(failAt) ==
    /\ blayout.made
    /\ nextSet <= MaxSets
    /\ LET arguments == [i \in 1..Len(btuple) |-> argument_type(btuple[i])]
           set == nextSet
           writes == as_writes(arguments)
       IN  IF failAt = "allocate"
             THEN /\ argWrites' = NoWrites
                  /\ UNCHANGED nextSet
             ELSE /\ nextSet' = nextSet + 1
                  /\ argWrites' = [made |-> TRUE, ok |-> failAt = "none", set |-> set,
                                    writes |-> writes_to_raw(set, writes)]
    /\ UNCHANGED <<btuple, blayout, pipeline>>
    /\ UNCHANGED NotBindingVars

NextBindings ==
    \/ \E ok \in BOOLEAN : FunctionDefCreate(ok)
    \/ \E f \in {"none", "allocate", "write"} : MakeArguments(f)

\* C7: a Bindings tuple of n bindings is lowered to n layout bindings; the i-th
\* (from 0) has binding number i, type UNIFORM_BUFFER for a uniform and
\* COMBINED_IMAGE_SAMPLER for a sampled image, the count of its binding and the
\* stages VERTEX | FRAGMENT, in tuple order.
C7_BindingLowering ==
    blayout.made =>
        /\ Len(blayout.bindings) = Len(btuple)
        /\ \A i \in 1..Len(btuple) :
               LET b == blayout.bindings[i]
               IN  /\ b.binding = i - 1
                   /\ btuple[i] = "SampledImage" =>
                          b.descriptor_type = "COMBINED_IMAGE_SAMPLER"
                   /\ btuple[i] \in {"Vec3", "Mat4", "Mvp"} =>
                          b.descriptor_type = "UNIFORM_BUFFER"
                   /\ b.descriptor_count = description(btuple[i]).count
                   /\ b.stage_flags = {"VERTEX", "FRAGMENT"}

\* A function with three bindings of both kinds has its layout.
C7_Witness ==
    /\ blayout.made
    /\ Len(btuple) = 3
    /\ btuple[1] = "Mvp"
    /\ btuple[2] = "SampledImage"
    /\ blayout.bindings[2].descriptor_type = "COMBINED_IMAGE_SAMPLER"

\* C8: make_arguments issues one descriptor write per binding of the function;
\* write i (from 0) targets binding i, array element 0 of the set allocated by
\* this call, with the descriptor type of layout binding i.
C8_WritesAgreeWithLayout ==
    argWrites.made =>
        /\ Len(argWrites.writes) = Len(blayout.bindings)
        /\ \A i \in 1..Len(argWrites.writes) :
               LET w == argWrites.writes[i]
               IN  /\ w.dst_binding = i - 1
                   /\ w.dst_binding = blayout.bindings[i].binding
                   /\ w.dst_array_element = 0
                   /\ w.dst_set = nextSet - 1
                   /\ w.descriptor_type = blayout.bindings[i].descriptor_type

\* The second set was allocated and written for a function that binds a
\* sampled image and a uniform.
C8_Witness ==
    /\ argWrites.made
    /\ argWrites.ok
    /\ argWrites.set = 2
    /\ Len(btuple) = 2
    /\ btuple[1] = "SampledImage"
    /\ btuple[2] = "Mat4"

(***************************************************************************)
(* pass.rs: render pass prototypes and their attachment graph              *)
(***************************************************************************)
\* format!(..): two of the three formats whose Pixel is a ColorClearValue (the
\* code treats R8G8B8A8_UNORM like the other two), and the one whose Pixel is a
\* DepthClearValue
ColorFormats == {"B8G8R8A8_UNORM", "R8G8B8A8_SRGB"}
DepthFormats == {"D32_SFLOAT"}

\* vk::ATTACHMENT_UNUSED, !0u32, as the 32-bit integer with all bits set
ATTACHMENT_UNUSED == -1
MultiSampleCounts == {2, 4}

None == [some |-> FALSE]
Some(x) == [some |-> TRUE, v |-> x]

\* Mutant of Attachment: the render pass leaves the image in the layout of its
\* subpass.
Attachment_left_in_subpass_layout(format, samples, layout) ==
    [format |-> format, samples |-> samples,
     load_op |-> "LOAD", store_op |-> "STORE",
     stencil_load_op |-> "DONT_CARE", stencil_store_op |-> "DONT_CARE",
     initial_layout |-> layout, final_layout |-> "COLOR_ATTACHMENT_OPTIMAL"]

\* pass::Attachment as the desc() functions fill it in
Attachment(format, samples, layout) ==
    [format |-> format, samples |-> samples,
     load_op |-> "LOAD", store_op |-> "STORE",
     stencil_load_op |-> "DONT_CARE", stencil_store_op |-> "DONT_CARE",
     initial_layout |-> layout, final_layout |-> layout]

\* ColorAttachment::desc and MultisampledColorAttachment::desc: the color
\* description and, for a multisampled attachment, its resolve description
color_desc(c, S) ==
    IF c.kind = "Color"
      THEN <<Attachment(c.format, SampleCount1, "TRANSFER_SRC_OPTIMAL"), None>>
      ELSE <<Attachment(c.format, S, "TRANSFER_SRC_OPTIMAL"),
             Some(Attachment(c.format, SampleCount1, "TRANSFER_SRC_OPTIMAL"))>>

\* ColorAttachments::desc for (), (A,), (A, B)
colors_desc(g) == [i \in 1..Len(g.colors) |-> color_desc(g.colors[i], g.samples)]

\* NoDepthAttachment::desc and DepthAttachment::desc
depth_desc(g) ==
    IF g.depth.some
      THEN Some(Attachment(g.depth.v, g.samples, "DEPTH_STENCIL_ATTACHMENT_OPTIMAL"))
      ELSE None

\* InputAttachments::desc: () has none; another implementation of the public
\* trait lists its own
inputs_desc(g) == g.inputs

AttachmentRef(index, layout) == [attachment |-> index, layout |-> layout]

\* get_render_pass_desc, the loop over the inputs
input_refs_of(inputs) ==
    [i \in 1..Len(inputs) |-> AttachmentRef(i - 1, "SHADER_READ_ONLY_OPTIMAL")]

\* Mutant of color_loop: the index is advanced once per color, also when a
\* resolve attachment was pushed.
RECURSIVE color_loop_single_step(_, _, _)
color_loop_single_step(colors, i, index) ==
    IF i > Len(colors)
      THEN [attachments |-> <<>>, color_refs |-> <<>>, index |-> index]
      ELSE LET color == colors[i][1]
               resolve == colors[i][2]
               pushed == IF resolve.some THEN <<color, resolve.v>> ELSE <<color>>
               ref == [color |-> AttachmentRef(index, "COLOR_ATTACHMENT_OPTIMAL"),
                       resolve |-> IF resolve.some
                                     THEN Some(AttachmentRef(index + 1,
                                                   "COLOR_ATTACHMENT_OPTIMAL"))
                                     ELSE None]
               rest == color_loop_single_step(colors, i + 1, index + 1)
           IN  [attachments |-> pushed \o rest.attachments,
                color_refs |-> <<ref>> \o rest.color_refs,
                index |-> rest.index]

\* get_render_pass_desc, the loop over the colors from color i on, with the
\* running `index`
RECURSIVE color_loop(_, _, _)
color_loop(colors, i, index) ==
    IF i > Len(colors)
      THEN [attachments |-> <<>>, color_refs |-> <<>>, index |-> index]
      ELSE LET color == colors[i][1]
               resolve == colors[i][2]
               pushed == IF resolve.some THEN <<color, resolve.v>> ELSE <<color>>
               ref == [color |-> AttachmentRef(index, "COLOR_ATTACHMENT_OPTIMAL"),
                       resolve |-> IF resolve.some
                                     THEN Some(AttachmentRef(index + 1,
                                                   "COLOR_ATTACHMENT_OPTIMAL"))
                                     ELSE None]
               index2 == (IF resolve.some THEN index + 1 ELSE index) + 1
               rest == color_loop(colors, i + 1, index2)
           IN  [attachments |-> pushed \o rest.attachments,
                color_refs |-> <<ref>> \o rest.color_refs,
                index |-> rest.index]

\* get_render_pass_desc::<G>() -> (attachments, [subpass], dependencies)
get_render_pass_desc(g) ==
    LET inputs == inputs_desc(g)
        cl == color_loop(colors_desc(g), 1, Len(inputs))
        depth == depth_desc(g)
    IN  [attachments |-> inputs \o cl.attachments
                           \o (IF depth.some THEN <<depth.v>> ELSE <<>>),
         subpasses |->
            <<[input_attachments |-> input_refs_of(inputs),
               color_attachments |-> cl.color_refs,
               depth_stencil_attachment |->
                   IF depth.some
                     THEN Some(AttachmentRef(cl.index,
                                   "DEPTH_STENCIL_ATTACHMENT_OPTIMAL"))
                     ELSE None]>>,
         dependencies |-> <<>>]

(***************************************************************************)
(* pass.rs: Attachments                                                    *)
(***************************************************************************)
\* ColorAttachment::create and MultisampledColorAttachment::create; `handle`
\* is the next free native handle.
color_attachment_create(c, S, usages, extent, handle) ==
    IF c.kind = "Color"
      THEN LET a == attachment_image(usages, "ColorAttachment", "TRANSFER_SRC_OPTIMAL",
                                     c.format, SampleCount1, extent, handle)
           IN  [kind |-> "Color", panic |-> a.panic, color |-> a, resolve |-> None,
                next |-> handle + 1]
      ELSE LET a == attachment_image(usages, "ColorAttachment", "TRANSFER_SRC_OPTIMAL",
                                     c.format, S, extent, handle)
               r == attachment_image(usages, "ColorAttachment", "TRANSFER_SRC_OPTIMAL",
                                     c.format, SampleCount1, extent, handle + 1)
           IN  [kind |-> "Multisampled", panic |-> a.panic \/ r.panic, color |-> a,
                resolve |-> Some(r), next |-> handle + 2]

\* ColorAttachments::create for (), (A,), (A, B): left to right
RECURSIVE colors_create(_, _, _, _, _, _)
colors_create(colors, i, S, usages, extent, handle) ==
    IF i > Len(colors)
      THEN <<>>
      ELSE LET a == color_attachment_create(colors[i], S, usages, extent, handle)
           IN  <<a>> \o colors_create(colors, i + 1, S, usages, extent, a.next)

\* DepthAttachment::create and NoDepthAttachment::create
depth_attachment_create(g, usages, extent, handle) ==
    IF g.depth.some
      THEN Some(attachment_image(usages, "DepthStencilAttachment",
                                 "DEPTH_STENCIL_ATTACHMENT_OPTIMAL", g.depth.v,
                                 g.samples, extent, handle))
      ELSE None

\* InputAttachments::create: () makes nothing; another implementation makes one
\* view per description
inputs_create(g, usages, handle) ==
    [i \in 1..Len(g.inputs) |->
        [image |-> handle + i - 1, format |-> g.inputs[i].format,
         samples |-> g.inputs[i].samples]]

\* Attachments::create(context, extent, color_usages)
attachments_create(g, extent, color_usages) ==
    LET ins == inputs_create(g, {}, 1)
        cols == colors_create(g.colors, 1, g.samples, color_usages, extent, Len(ins) + 1)
        h == IF cols = <<>> THEN Len(ins) + 1 ELSE cols[Len(cols)].next
        dep == depth_attachment_create(g, {}, extent, h)
    IN  [state |-> IF (\E i \in 1..Len(cols) : cols[i].panic)
                       \/ (dep.some /\ dep.v.panic)
                     THEN "panic" ELSE "ok",
         extent |-> extent,
         color_usages |-> color_usages,
         input_attachments |-> ins,
         color_attachments |-> cols,
         depth_attachment |-> dep]

\* ColorAttachmentType::as_raw: (color view, resolve view)
color_as_raw(a) ==
    <<a.color.view, IF a.resolve.some THEN Some(a.resolve.v.view) ELSE None>>

\* Mutant of colors_flatten: all color views first, the resolve views after them.
RECURSIVE colors_flatten_grouped(_)
colors_flatten_grouped(raws) ==
    [i \in 1..Len(raws) |-> raws[i][1]]
      \o (IF raws = <<>>
             THEN <<>>
             ELSE (IF Head(raws)[2].some THEN <<Head(raws)[2].v>> ELSE <<>>)
                    \o SelectSeq(colors_flatten_grouped(Tail(raws)),
                                  LAMBDA x : x.samples = SampleCount1
                                             /\ \E j \in 1..Len(raws) :
                                                    raws[j][2].some /\ raws[j][2].v = x))

\* The chain of Attachments::as_raw over the colors: each color view followed
\* by its resolve view
RECURSIVE colors_flatten(_)
colors_flatten(raws) ==
    IF raws = <<>>
      THEN <<>>
      ELSE (IF Head(raws)[2].some THEN <<Head(raws)[1], Head(raws)[2].v>>
                                  ELSE <<Head(raws)[1]>>)
             \o colors_flatten(Tail(raws))

\* InputAttachments::as_raw: the raw image view of an input attachment
input_as_raw(a) ==
    [view |-> [usage |-> {}, utype |-> "InputAttachment"], image |-> a.image,
     format |-> a.format, samples |-> a.samples]

\* Attachments::as_raw
attachments_as_raw(att) ==
    [i \in 1..Len(att.input_attachments) |-> input_as_raw(att.input_attachments[i])]
      \o colors_flatten([i \in 1..Len(att.color_attachments) |->
                            color_as_raw(att.color_attachments[i])])
      \o (IF att.depth_attachment.some THEN <<att.depth_attachment.v.view>> ELSE <<>>)

(***************************************************************************)
(* SpecPass                                                                *)
(***************************************************************************)
\* The color attachment types usable with sample count S: ColorAttachment<F>
\* implements ColorAttachmentType<SampleCount1>, MultisampledColorAttachment<F, S>
\* implements ColorAttachmentType<S> for the multisample counts.
ColorTypes(S) ==
    {[kind |-> IF S = SampleCount1 THEN "Color" ELSE "Multisampled", format |-> f] :
        f \in ColorFormats}

InputDescs == {Attachment("R8G8B8A8_UNORM", SampleCount1, "SHADER_READ_ONLY_OPTIMAL")}

Prototypes ==
    UNION {[samples : {S},
            inputs : SeqsUpTo(InputDescs, MaxInputs),
            colors : SeqsUpTo(ColorTypes(S), MaxColors),
            depth : {None} \cup {Some(f) : f \in DepthFormats}] :
           S \in {SampleCount1} \cup MultiSampleCounts}

NoProto == [samples |-> SampleCount1, inputs |-> <<>>, colors |-> <<>>, depth |-> None]
NoPassDesc == [made |-> FALSE]
NoAttachments == [state |-> "none"]

NoClear == [made |-> FALSE]

\* Vec4 clear colors and f32 clear depths
ClearColors == {[x |-> 0, y |-> 0, z |-> 0, w |-> 1], [x |-> 1, y |-> 1, z |-> 1, w |-> 1]}
ClearDepths == {[f32 |-> 0], [f32 |-> 1]}
Unit == [unit |-> TRUE]

IdlePassVars ==
    /\ proto = NoProto
    /\ passDesc = NoPassDesc
    /\ attachments = NoAttachments
    /\ fbViews = None
    /\ cleared = NoClear

\* The render pass of the prototype without attachments exists.
PlainPassVars ==
    /\ proto = NoProto
    /\ passDesc = [made |-> TRUE, desc |-> get_render_pass_desc(NoProto)]
    /\ attachments = NoAttachments
    /\ fbViews = None
    /\ cleared = NoClear

InitPassVars ==
    /\ proto \in Prototypes
    /\ passDesc = NoPassDesc
    /\ attachments = NoAttachments
    /\ fbViews = None
    /\ cleared = NoClear

\* RenderPass::create(context)
RenderPassCreate(ok) ==
    /\ ~passDesc.made
    /\ passDesc' = IF ok THEN [made |-> TRUE, desc |-> get_render_pass_desc(proto)]
                         ELSE NoPassDesc
    /\ UNCHANGED <<proto, attachments, fbViews, cleared>>
    /\ UNCHANGED NotPassVars

\* Attachments::create(context, extent, color_usages); a failing native call
\* returns Err and keeps nothing.
AttachmentsCreate(extent, color_usages, ok) ==
    /\ attachments.state = "none"
    /\ attachments' = IF ok THEN attachments_create(proto, extent, color_usages)
                            ELSE NoAttachments
    /\ UNCHANGED <<proto, passDesc, fbViews, cleared>>
    /\ UNCHANGED NotPassVars

\* Attachments::as_raw(&self), called to build the framebuffer of a target
AttachmentsAsRaw ==
    /\ attachments.state = "ok"
    /\ fbViews' = Some(attachments_as_raw(attachments))
    /\ UNCHANGED <<proto, passDesc, attachments, cleared>>
    /\ UNCHANGED NotPassVars

\* ColorClearValue for Vec4
color_clear_as_raw(c) == [float32 |-> <<c.x, c.y, c.z, c.w>>]

\* ColorClearValues for (), (A,), (A, B)
color_clears_as_raw(colors) == [i \in 1..Len(colors) |-> color_clear_as_raw(colors[i])]

\* DepthClearValue for () and for f32
depth_clear_as_raw(depth) ==
    IF "f32" \in DOMAIN depth THEN Some([depth |-> depth.f32, stencil |-> 0]) ELSE None

\* Attachments::clears(colors, depth)
clears(g, colors, depth) ==
    LET input_attachments_count == Len(inputs_desc(g))
        raw == color_clears_as_raw(colors)
        d == depth_clear_as_raw(depth)
    IN  [i \in 1..Len(raw) |->
            [aspect_mask |-> "COLOR",
             color_attachment |-> (i - 1) + input_attachments_count,
             clear_value |-> [color |-> raw[i]]]]
          \o (IF d.some
                 THEN <<[aspect_mask |-> "DEPTH",
                         color_attachment |-> ATTACHMENT_UNUSED,
                         clear_value |-> [depth_stencil |-> d.v]]>>
                 ELSE <<>>)

\* What the device does to one attachment image when a render pass instance
\* ends: the image bound at index k of the framebuffer is left in the
\* final_layout of attachment description k.
image_after_render_pass(a, views, descs) ==
    LET ks == {k \in 1..Len(views) : k <= Len(descs) /\ views[k].image = a.image.handle}
    IN  IF ks = {}
          THEN a
          ELSE [a EXCEPT !.image.img.image.layout =
                              descs[CHOOSE k \in ks : TRUE].final_layout]

\* CommandBuffer::begin_render_pass ... end_render_pass on the framebuffer of
\* the target: the effect on the attachment images
end_render_pass(att, views, descs) ==
    [att EXCEPT
        !.color_attachments =
            [i \in 1..Len(att.color_attachments) |->
                LET c == att.color_attachments[i]
                IN  [c EXCEPT
                        !.color = image_after_render_pass(c.color, views, descs),
                        !.resolve =
                            IF c.resolve.some
                              THEN Some(image_after_render_pass(c.resolve.v, views, descs))
                              ELSE None]],
        !.depth_attachment =
            IF att.depth_attachment.some
              THEN Some(image_after_render_pass(att.depth_attachment.v, views, descs))
              ELSE None]

\* The clear values the types of prototype g ask for
ClearValuesOf(g) == [1..Len(g.colors) -> ClearColors]
ClearValueOf(g) == IF g.depth.some THEN ClearDepths ELSE {Unit}

\* RenderEngine::clear(context, target, colors, depth): what the closure
\* records; a failing native call of submit returns Err.
Clear(colors, depth, ok) ==
    /\ passDesc.made
    /\ attachments.state = "ok"
    /\ fbViews.some
    /\ cleared' =
          IF ok
            THEN LET clear_attachments == clears(proto, colors, depth)
                 IN  [made |-> TRUE,
                      colors |-> colors,
                      depth |-> depth,
                      render_area |-> [offset |-> [x |-> 0, y |-> 0],
                                       extent |-> attachments.extent],
                      clear_attachments |-> clear_attachments,
                      clear_rects |->
                          [i \in 1..Len(clear_attachments) |->
                              [rect |-> [offset |-> [x |-> 0, y |-> 0],
                                         extent |-> attachments.extent],
                               base_array_layer |-> 0,
                               layer_count |-> 1]]]
            ELSE NoClear
    /\ attachments' = IF ok
                         THEN end_render_pass(attachments, fbViews.v,
                                              passDesc.desc.attachments)
                         ELSE attachments
    /\ UNCHANGED <<proto, passDesc, fbViews>>
    /\ UNCHANGED NotPassVars

\* RenderEngine::pass(context, target, function, draws): the render pass
\* instance it records around the draws; a failing native call of submit
\* returns Err.
Pass(ok) ==
    /\ passDesc.made
    /\ attachments.state = "ok"
    /\ fbViews.some
    /\ pipeline.made
    /\ cleared' =
          IF ok
            THEN [made |-> FALSE,
                  pass |-> [render_area |-> [offset |-> [x |-> 0, y |-> 0],
                                             extent |-> attachments.extent],
                            scissor |-> [offset |-> [x |-> 0, y |-> 0],
                                         extent |-> attachments.extent],
                            pipeline |-> pipeline]]
            ELSE NoClear
    /\ attachments' = IF ok
                         THEN end_render_pass(attachments, fbViews.v,
                                              passDesc.desc.attachments)
                         ELSE attachments
    /\ UNCHANGED <<proto, passDesc, fbViews>>
    /\ UNCHANGED NotPassVars

\* The attachments are dropped (a target is resized or goes away).
AttachmentsDrop ==
    /\ attachments.state # "none"
    /\ attachments' = NoAttachments
    /\ fbViews' = None
    /\ cleared' = NoClear
    /\ UNCHANGED <<proto, passDesc>>
    /\ UNCHANGED NotPassVars

NextPass ==
    \/ \E ok \in BOOLEAN : RenderPassCreate(ok)
    \/ \E e \in Extents, cu \in DynUsages, ok \in BOOLEAN : AttachmentsCreate(e, cu, ok)
    \/ AttachmentsAsRaw
    \/ AttachmentsDrop
    \/ \E ok \in BOOLEAN : FunctionDefCreate(ok)
    \/ \E ok \in BOOLEAN : Pass(ok)
    \/ \E colors \in ClearValuesOf(proto), depth \in ClearValueOf(proto), ok \in BOOLEAN :
          Clear(colors, depth, ok)

\* Where the claims say the attachments of prototype g sit in the list
HasResolve(g, i) == g.colors[i].kind = "Multisampled"

RECURSIVE SlotsOfFirstColors(_, _)
SlotsOfFirstColors(g, n) ==
    IF n = 0 THEN 0
    ELSE SlotsOfFirstColors(g, n - 1) + (IF HasResolve(g, n) THEN 2 ELSE 1)

ColorSlot(g, i) == Len(g.inputs) + SlotsOfFirstColors(g, i - 1)
ResolveSlot(g, i) == ColorSlot(g, i) + 1
DepthSlot(g) == Len(g.inputs) + SlotsOfFirstColors(g, Len(g.colors))
SlotCount(g) == DepthSlot(g) + (IF g.depth.some THEN 1 ELSE 0)

\* The attachment indices the single subpass refers to
SubpassRefs(sub) ==
    {sub.input_attachments[i].attachment : i \in 1..Len(sub.input_attachments)}
      \cup {sub.color_attachments[i].color.attachment :
                i \in 1..Len(sub.color_attachments)}
      \cup {sub.color_attachments[i].resolve.v.attachment :
                i \in {j \in 1..Len(sub.color_attachments) :
                          sub.color_attachments[j].resolve.some}}
      \cup (IF sub.depth_stencil_attachment.some
               THEN {sub.depth_stencil_attachment.v.attachment} ELSE {})

SubpassRefCount(sub) ==
    Len(sub.input_attachments) + Len(sub.color_attachments)
      + Cardinality({j \in 1..Len(sub.color_attachments) :
                        sub.color_attachments[j].resolve.some})
      + (IF sub.depth_stencil_attachment.some THEN 1 ELSE 0)

\* C9: the attachment list of a render pass is its inputs, then every color
\* with its resolve right behind it, then the depth attachment; each reference
\* of the single subpass holds the position of its own description, and the
\* references are pairwise distinct and cover 0 .. len - 1.
C9_AttachmentGraph ==
    passDesc.made =>
        LET g == proto
            atts == passDesc.desc.attachments
            sub == passDesc.desc.subpasses[1]
        IN  /\ Len(passDesc.desc.subpasses) = 1
            /\ Len(atts) = SlotCount(g)
            /\ Len(sub.input_attachments) = Len(g.inputs)
            /\ \A i \in 1..Len(g.inputs) :
                   /\ sub.input_attachments[i].attachment = i - 1
                   /\ atts[i] = g.inputs[i]
            /\ Len(sub.color_attachments) = Len(g.colors)
            /\ \A i \in 1..Len(g.colors) :
                   LET r == sub.color_attachments[i]
                   IN  /\ r.color.attachment = ColorSlot(g, i)
                       /\ atts[ColorSlot(g, i) + 1].format = g.colors[i].format
                       /\ atts[ColorSlot(g, i) + 1].samples = g.samples
                       /\ r.resolve.some <=> HasResolve(g, i)
                       /\ HasResolve(g, i) =>
                              /\ r.resolve.v.attachment = ResolveSlot(g, i)
                              /\ atts[ResolveSlot(g, i) + 1].format = g.colors[i].format
                              /\ atts[ResolveSlot(g, i) + 1].samples = 1
            /\ sub.depth_stencil_attachment.some <=> g.depth.some
            /\ g.depth.some =>
                   /\ sub.depth_stencil_attachment.v.attachment = DepthSlot(g)
                   /\ atts[DepthSlot(g) + 1].format = g.depth.v
                   /\ atts[DepthSlot(g) + 1].final_layout
                          = "DEPTH_STENCIL_ATTACHMENT_OPTIMAL"
            /\ SubpassRefs(sub) = 0..(Len(atts) - 1)
            /\ Cardinality(SubpassRefs(sub)) = SubpassRefCount(sub)

\* The render pass of a prototype with two multisampled colors and a depth
\* attachment was described: five attachments, the depth one last.
C9_Witness ==
    /\ passDesc.made
    /\ Len(proto.colors) = 2
    /\ proto.samples = 4
    /\ proto.depth.some
    /\ Len(passDesc.desc.attachments) = Len(proto.inputs) + 5
    /\ passDesc.desc.subpasses[1].color_attachments[2].resolve.some

\* C10: the views Attachments::as_raw lists are as many as the attachment
\* descriptions of the render pass and in the same order: view j is the view
\* of the image of the attachment described at index j.
C10_ViewsMatchDescriptions ==
    (fbViews.some /\ passDesc.made /\ attachments.state = "ok") =>
        LET g == proto
            atts == passDesc.desc.attachments
            views == fbViews.v
            A == attachments
        IN  /\ Len(views) = Len(atts)
            /\ \A j \in 1..Len(views) :
                   /\ views[j].format = atts[j].format
                   /\ views[j].samples = atts[j].samples
            /\ \A i \in 1..Len(g.inputs) :
                   views[i].image = A.input_attachments[i].image
            /\ \A i \in 1..Len(g.colors) :
                   /\ views[ColorSlot(g, i) + 1].image
                          = A.color_attachments[i].color.image.handle
                   /\ HasResolve(g, i) =>
                          views[ResolveSlot(g, i) + 1].image
                              = A.color_attachments[i].resolve.v.image.handle
            /\ g.depth.some =>
                   views[DepthSlot(g) + 1].image = A.depth_attachment.v.image.handle

\* The views of two multisampled colors, their resolves and the depth image
\* were listed for a render pass that was described.
C10_Witness ==
    /\ fbViews.some
    /\ passDesc.made
    /\ attachments.state = "ok"
    /\ Len(proto.colors) = 2
    /\ proto.samples = 2
    /\ proto.depth.some
    /\ Len(fbViews.v) = Len(proto.inputs) + 5

\* C11: the pipeline of a function rasterizes with the sample count of its
\* render pass prototype; the color (non-resolve) and depth descriptions of the
\* render pass have that sample count, the resolve descriptions have one sample.
C11_SampleCountsAgree ==
    (pipeline.made /\ passDesc.made) =>
        LET g == proto
            atts == passDesc.desc.attachments
        IN  /\ pipeline.multisample_state.rasterization_samples = g.samples
            /\ \A i \in 1..Len(g.colors) :
                   /\ atts[ColorSlot(g, i) + 1].samples
                          = pipeline.multisample_state.rasterization_samples
                   /\ HasResolve(g, i) => atts[ResolveSlot(g, i) + 1].samples = 1
            /\ g.depth.some =>
                   atts[DepthSlot(g) + 1].samples
                       = pipeline.multisample_state.rasterization_samples

\* A function was created on a four-sample render pass with a color and a
\* depth attachment.
C11_Witness ==
    /\ pipeline.made
    /\ passDesc.made
    /\ proto.samples = 4
    /\ Len(proto.colors) >= 1
    /\ proto.depth.some
    /\ pipeline.multisample_state.rasterization_samples = 4

\* C14: RenderEngine::clear clears every attachment of the target. The clear
\* entries are one per color attachment in tuple order, the i-th with aspect
\* COLOR, the i-th supplied color and the index of the i-th color reference of
\* the subpass, then one entry with aspect DEPTH and ATTACHMENT_UNUSED exactly
\* when the prototype has a depth attachment; there is one clear rectangle per
\* entry, each the whole extent from (0, 0), layer 0, one layer.
C14_ClearsEveryAttachment ==
    (cleared.made /\ passDesc.made) =>
        LET g == proto
            n == Len(g.colors)
            refs == passDesc.desc.subpasses[1].color_attachments
            entries == cleared.clear_attachments
        IN  /\ Len(entries) = n + (IF g.depth.some THEN 1 ELSE 0)
            /\ \A i \in 1..n :
                   /\ entries[i].aspect_mask = "COLOR"
                   /\ entries[i].clear_value.color.float32
                          = <<cleared.colors[i].x, cleared.colors[i].y,
                              cleared.colors[i].z, cleared.colors[i].w>>
                   /\ entries[i].color_attachment + 1 \in 1..Len(refs)
                   /\ entries[i].color_attachment + 1 = i
            /\ g.depth.some =>
                   /\ entries[n + 1].aspect_mask = "DEPTH"
                   /\ entries[n + 1].color_attachment = ATTACHMENT_UNUSED
                   /\ entries[n + 1].clear_value.depth_stencil.depth = cleared.depth.f32
            /\ Len(cleared.clear_rects) = Len(entries)
            /\ \A j \in 1..Len(cleared.clear_rects) :
                   cleared.clear_rects[j]
                       = [rect |-> [offset |-> [x |-> 0, y |-> 0],
                                    extent |-> attachments.extent],
                          base_array_layer |-> 0,
                          layer_count |-> 1]

\* C15: the color and resolve images Attachments::create builds have the usage
\* color_usages plus COLOR_ATTACHMENT, the depth image DEPTH_STENCIL_ATTACHMENT
\* alone; so the cast_usage(..).unwrap() of the create functions never panics,
\* and cast_usage_ref(TransferSrc) on a color image gives Some exactly when
\* color_usages contains TRANSFER_SRC.
C15_AttachmentUsages ==
    attachments.state # "none" =>
        LET A == attachments
            Colored(a) ==
                /\ a.image.img.usage = A.color_usages \cup {"COLOR_ATTACHMENT"}
                /\ a.image.img.utype = "ColorAttachment"
                /\ a.view.view.usage = a.image.img.usage
                /\ cast_allowed(a.image.img, [ty |-> "TransferSrc", dyn |-> {}])
                      <=> "TRANSFER_SRC" \in A.color_usages
        IN  /\ A.state = "ok"
            /\ \A i \in 1..Len(A.color_attachments) :
                   /\ ~A.color_attachments[i].panic
                   /\ Colored(A.color_attachments[i].color)
                   /\ A.color_attachments[i].resolve.some
                         => Colored(A.color_attachments[i].resolve.v)
            /\ A.depth_attachment.some =>
                   /\ ~A.depth_attachment.v.panic
                   /\ A.depth_attachment.v.image.img.usage = {"DEPTH_STENCIL_ATTACHMENT"}
                   /\ A.depth_attachment.v.image.img.utype = "DepthStencilAttachment"

\* Attachments with a multisampled color, its resolve and a depth image were
\* created with color_usages = TRANSFER_SRC.
C15_Witness ==
    /\ attachments.state = "ok"
    /\ attachments.color_usages = {"TRANSFER_SRC"}
    /\ Len(attachments.color_attachments) >= 1
    /\ attachments.color_attachments[1].resolve.some
    /\ attachments.depth_attachment.some

\* The native layout and the tracked layout of an attachment image
NativeLayout(a) == a.image.img.image.layout
TrackedLayout(a) == a.image.img.layout

\* C20: every color and resolve image is in TRANSFER_SRC_OPTIMAL and every
\* depth image in DEPTH_STENCIL_ATTACHMENT_OPTIMAL from its creation on, before
\* and after every clear and pass; the attachment description of each declares
\* that same layout as initial_layout and as final_layout.
C20_AttachmentLayoutsStable ==
    attachments.state = "ok" =>
        LET g == proto
            descs == get_render_pass_desc(g).attachments
            Stable(a, slot, layout) ==
                /\ NativeLayout(a) = layout
                /\ TrackedLayout(a) = layout
                /\ descs[slot + 1].initial_layout = layout
                /\ descs[slot + 1].final_layout = layout
        IN  /\ passDesc.made => passDesc.desc.attachments = descs
            /\ \A i \in 1..Len(g.colors) :
                   /\ Stable(attachments.color_attachments[i].color, ColorSlot(g, i),
                             "TRANSFER_SRC_OPTIMAL")
                   /\ HasResolve(g, i) =>
                          Stable(attachments.color_attachments[i].resolve.v,
                                 ResolveSlot(g, i), "TRANSFER_SRC_OPTIMAL")
            /\ g.depth.some =>
                   Stable(attachments.depth_attachment.v, DepthSlot(g),
                          "DEPTH_STENCIL_ATTACHMENT_OPTIMAL")

\* A pass has run, after a function was made, on a target with a multisampled
\* color attachment and a depth attachment.
C20_Witness ==
    /\ attachments.state = "ok"
    /\ "pass" \in DOMAIN cleared
    /\ Len(attachments.color_attachments) >= 1
    /\ attachments.color_attachments[1].resolve.some
    /\ attachments.depth_attachment.some

\* C23: the pipeline of a function has one color blend attachment state per
\* color attachment of its render pass prototype, resolve attachments not
\* counted and none for an empty color tuple; all are the same state (blending
\* enabled, color SRC_ALPHA / ONE_MINUS_SRC_ALPHA / ADD, alpha ONE / ZERO / ADD,
\* every component written); their number is the number of color references
\* of the subpass.
C23_BlendStatePerColor ==
    (pipeline.made /\ passDesc.made) =>
        LET states == pipeline.color_blend_states
            refs == passDesc.desc.subpasses[1].color_attachments
        IN  /\ Len(states) = Len(proto.colors)
            /\ Len(states) = Len(refs)
            /\ Len(passDesc.desc.subpasses) = 1
            /\ \A i \in 1..Len(states) :
                   /\ states[i].blend_enable
                   /\ states[i].src_color_blend_factor = "SRC_ALPHA"
                   /\ states[i].dst_color_blend_factor = "ONE_MINUS_SRC_ALPHA"
                   /\ states[i].color_blend_op = "ADD"
                   /\ states[i].src_alpha_blend_factor = "ONE"
                   /\ states[i].dst_alpha_blend_factor = "ZERO"
                   /\ states[i].alpha_blend_op = "ADD"
                   /\ states[i].color_write_mask = {"R", "G", "B", "A"}

\* A function was created on a render pass with two color attachments, the
\* first of them multisampled with a resolve attachment.
C23_Witness ==
    /\ pipeline.made
    /\ passDesc.made
    /\ Len(proto.colors) = 2
    /\ proto.colors[1].kind = "Multisampled"
    /\ Len(pipeline.color_blend_states) = 2
    /\ Len(passDesc.desc.attachments) >= 3

(***************************************************************************)
(* Buffers: map, map_mut, with_map, with_map_mut and the map guards         *)
(***************************************************************************)
\* An array buffer and an item buffer made on one Context
Buffers == {"array", "item"}

\* Map / ItemMap, MapMut / ItemMapMut, and the temporaries of with_map and
\* with_map_mut
GuardKinds == {"Map", "MapMut", "with_map", "with_map_mut"}
NoGuard == [buffer |-> "none", kind |-> "none"]

\* Mutant of context_available: a map does not borrow the Context.
context_always_available(g) == TRUE

\* map(&'a self, context: &'a mut Context) -> Map<'a, ..>: the guard keeps the
\* exclusive borrow of the Context, so the Context can be handed to another
\* map only when no guard lives.
context_available(g) == g = NoGuard

\* Device::map_buffer(&self.buffer)? and the construction of the guard
map_buffer(b, kind, ok) ==
    /\ attempts[b] < MaxMaps
    /\ attempts' = [attempts EXCEPT ![b] = @ + 1]
    /\ IF ok
         THEN /\ mapped' = [mapped EXCEPT ![b] = @ + 1]
              /\ maps' = [maps EXCEPT ![b] = @ + 1]
              /\ guard' = [buffer |-> b, kind |-> kind]
         ELSE UNCHANGED <<mapped, maps, guard>>
    /\ UNCHANGED unmaps

\* Drop for Map, MapMut, ItemMap, ItemMapMut: Device::unmap_buffer
drop_guard ==
    /\ mapped' = [mapped EXCEPT ![guard.buffer] = @ - 1]
    /\ unmaps' = [unmaps EXCEPT ![guard.buffer] = @ + 1]
    /\ guard' = NoGuard
    /\ UNCHANGED <<attempts, maps>>

InitBufferVars ==
    /\ mapped = [b \in Buffers |-> 0]
    /\ guard = NoGuard
    /\ attempts = [b \in Buffers |-> 0]
    /\ maps = [b \in Buffers |-> 0]
    /\ unmaps = [b \in Buffers |-> 0]

\* Buffer::map(&self, context)
BufferMap(b, ok) ==
    /\ context_available(guard)
    /\ map_buffer(b, "Map", ok)
    /\ UNCHANGED NotBufferVars

\* Buffer::map_mut(&mut self, context)
BufferMapMut(b, ok) ==
    /\ context_available(guard)
    /\ map_buffer(b, "MapMut", ok)
    /\ UNCHANGED NotBufferVars

\* The guard a caller got from map or map_mut goes out of scope.
GuardDrop ==
    /\ guard.kind \in {"Map", "MapMut"}
    /\ drop_guard
    /\ UNCHANGED NotBufferVars

\* Buffer::with_map(&self, context, f) up to the call of f; a failed map
\* returns Err before f is called.
WithMap(b, ok) ==
    /\ context_available(guard)
    /\ map_buffer(b, "with_map", ok)
    /\ UNCHANGED NotBufferVars

\* Buffer::with_map_mut(&mut self, context, f) up to the call of f
WithMapMut(b, ok) ==
    /\ context_available(guard)
    /\ map_buffer(b, "with_map_mut", ok)
    /\ UNCHANGED NotBufferVars

\* f returns (or unwinds): the temporary guard of with_map / with_map_mut is
\* dropped and the operation returns.
WithMapReturn ==
    /\ guard.kind \in {"with_map", "with_map_mut"}
    /\ drop_guard
    /\ UNCHANGED NotBufferVars

NextBuffer ==
    \/ \E b \in Buffers, ok \in BOOLEAN : BufferMap(b, ok)
    \/ \E b \in Buffers, ok \in BOOLEAN : BufferMapMut(b, ok)
    \/ GuardDrop
    \/ \E b \in Buffers, ok \in BOOLEAN : WithMap(b, ok)
    \/ \E b \in Buffers, ok \in BOOLEAN : WithMapMut(b, ok)
    \/ WithMapReturn

\* A guard is dropped when its scope ends, and the closure of with_map returns.
FairBuffer == WF_vars(GuardDrop) /\ WF_vars(WithMapReturn)

LiveGuards(b) == IF guard.buffer = b THEN 1 ELSE 0

\* C12: buffer mapping is balanced. Every successful map of a buffer is unmapped
\* exactly once, by the drop of its guard; a failed map issues no unmap;
\* with_map and with_map_mut end with the buffer unmapped; a buffer is never
\* mapped twice at the same time.
C12_MappingBalanced ==
    /\ [](\A b \in Buffers :
            /\ mapped[b] \in {0, 1}
            /\ mapped[b] = LiveGuards(b)
            /\ unmaps[b] + LiveGuards(b) = maps[b]
            /\ maps[b] <= attempts[b])
    /\ \A b \in Buffers : (mapped[b] = 1) ~> (mapped[b] = 0)

\* A buffer was mapped twice, once by with_map_mut, with a failed map between,
\* and is unmapped again.
C12_Witness ==
    /\ guard = NoGuard
    /\ attempts["array"] = 2
    /\ maps["array"] = 1
    /\ unmaps["array"] = 1
    /\ mapped["array"] = 0
    /\ maps["item"] >= 1

(***************************************************************************)
(* The native calls of the public operations                               *)
(*                                                                         *)
(* Each operation is the sequence of its fallible native calls, in program *)
(* order. `onFail` is what the code does with a failing result:            *)
(*   "propagate"  `?`: return Err with the code                            *)
(*   "panic"      unwrap() / expect()                                      *)
(*   "replace"    map_err to another error value                          *)
(*   "ignore"     log and go on                                            *)
(* `lock` says the call is made inside queue.with_lock, `submit` that the  *)
(* call submits work to the device queue.                                  *)
(***************************************************************************)
Call(name, onFail, lock, submit) ==
    [name |-> name, onFail |-> onFail, lock |-> lock, submit |-> submit]

\* Context::create with create_instance and create_device
ContextCreateCalls ==
    <<Call("rk::create_entry", "panic", FALSE, FALSE),
      Call("Instance::create", "propagate", FALSE, FALSE),
      Call("rk::create_debug_report_callback", "ignore", FALSE, FALSE),
      Call("PhysicalDevice::choose", "replace", FALSE, FALSE),
      Call("PhysicalDevice::find_queue_family_index", "noqueue", FALSE, FALSE),
      Call("Device::create", "propagate", FALSE, FALSE),
      Call("CommandPool::create", "propagate", FALSE, FALSE)>>

\* WindowEngine::new
WindowEngineNewCalls ==
    <<Call("Surface::create_from_raw_handle", "panic", FALSE, FALSE),
      Call("Surface::get_info", "propagate", FALSE, FALSE),
      Call("Device::create_swapchain", "panic", FALSE, FALSE),
      Call("PresentationEngine::new", "panic", FALSE, FALSE),
      Call("Device::create_render_pass", "propagate", FALSE, FALSE),
      Call("CommandPool::create", "propagate", FALSE, FALSE)>>

\* RenderPass::create
RenderPassCreateCalls ==
    <<Call("Device::create_render_pass", "propagate", FALSE, FALSE)>>

\* FunctionDef::create with create_descriptor_pool, create_pipeline and
\* create_shader_module
FunctionDefCreateCalls ==
    <<Call("Device::create_descriptor_pool", "propagate", FALSE, FALSE),
      Call("Device::create_shader_module_from_spirv(vert)", "panic", FALSE, FALSE),
      Call("Device::create_shader_module_from_spirv(frag)", "panic", FALSE, FALSE),
      Call("Device::create_descriptor_set_layout", "propagate", FALSE, FALSE),
      Call("Device::create_pipeline_layout", "propagate", FALSE, FALSE),
      Call("Device::create_pipeline", "propagate", FALSE, FALSE)>>

\* FunctionDef::make_arguments
MakeArgumentsCalls ==
    <<Call("Device::allocate_descriptor_set", "propagate", FALSE, FALSE),
      Call("Device::write_descriptor_set", "propagate", FALSE, FALSE)>>

\* Buffer::make_array_buffer and Buffer::make_item_buffer
MakeBufferCalls ==
    <<Call("Device::make_buffer", "propagate", FALSE, FALSE)>>

\* Image::create with create_raw
ImageCreateCalls ==
    <<Call("RkImage::create", "propagate", FALSE, FALSE)>>

\* Image::transition
TransitionCalls ==
    <<Call("rk::image::transition_image_layout", "propagate", TRUE, TRUE)>>

\* Image::make_image: create_raw, transition, staging buffer, copy
MakeImageCalls ==
    ImageCreateCalls \o TransitionCalls \o MakeBufferCalls
        \o <<Call("Device::copy_buffer_to_image", "propagate", FALSE, TRUE)>>

\* RenderEngine::submit around the recording closure of clear and of pass
SubmitCalls ==
    <<Call("CommandBuffer::allocate", "propagate", FALSE, FALSE),
      Call("CommandBuffer::begin", "propagate", FALSE, FALSE),
      Call("CommandBuffer::begin_render_pass", "propagate", FALSE, FALSE),
      Call("CommandBuffer::end", "propagate", FALSE, FALSE),
      Call("Queue::submit", "propagate", TRUE, TRUE),
      Call("CommandBuffer::wait", "propagate", FALSE, FALSE)>>

\* WindowEngine::present; the resize of the target is the case of a new extent
PresentCalls ==
    <<Call("PresentationEngine::present", "propagate", TRUE, TRUE)>>

Calls ==
    [ContextCreate |-> ContextCreateCalls,
     WindowEngineNew |-> WindowEngineNewCalls,
     RenderPassCreate |-> RenderPassCreateCalls,
     FunctionDefCreate |-> FunctionDefCreateCalls,
     MakeArguments |-> MakeArgumentsCalls,
     MakeBuffer |-> MakeBufferCalls,
     ImageCreate |-> ImageCreateCalls,
     MakeImage |-> MakeImageCalls,
     Transition |-> TransitionCalls,
     Clear |-> SubmitCalls,
     Pass |-> SubmitCalls,
     Present |-> PresentCalls]

Operations == DOMAIN Calls

\* vk::Result values a native call can fail with
ErrorCodes == {"ERROR_OUT_OF_DEVICE_MEMORY", "ERROR_DEVICE_LOST"}
Results == {"SUCCESS"} \cup ErrorCodes

\* What a call can return: find_queue_family_index returns an Option, the
\* native calls a vk::Result
ResultsOf(call) == IF call.onFail = "noqueue" THEN {"SUCCESS", "NONE"} ELSE Results

\* The threads that share one Context
Callers == {"a", "b"}
NoCaller == "nobody"

Running == [kind |-> "Running", code |-> "none"]
Ok == [kind |-> "Ok", code |-> "none"]
Err(code) == [kind |-> "Err", code |-> code]
Panic == [kind |-> "Panic", code |-> "none"]

\* Mutant of handle_result: every failure is returned with `?`.
handle_result_all_fatal(call, r) ==
    IF r = "SUCCESS" THEN Running ELSE Err(r)

\* What the operation does with the result `r` of call `call`:
\* the outcome it ends with, or Running when it goes on.
handle_result(call, r) ==
    CASE r = "SUCCESS" -> Running
      [] r # "SUCCESS" /\ call.onFail = "propagate" -> Err(r)
      [] r # "SUCCESS" /\ call.onFail = "panic" -> Panic
      [] r # "SUCCESS" /\ call.onFail = "replace" -> Err("NoDevice")
      [] r # "SUCCESS" /\ call.onFail = "noqueue" -> Err("NoQueue")
      [] r # "SUCCESS" /\ call.onFail = "ignore" -> Running

InitCallVars ==
    /\ pc = [c \in Callers |-> 0]
    /\ op = [c \in Callers |-> "idle"]
    /\ outcome = [c \in Callers |-> Ok]
    /\ failed = [c \in Callers |-> "none"]
    /\ returned = [c \in Callers |-> <<>>]
    /\ lockHolder = NoCaller
    /\ submitting = [c \in Callers |-> FALSE]

CurrentCall(c) == Calls[op[c]][pc[c]]
InCall(c) == op[c] # "idle" /\ outcome[c] = Running

\* A caller enters a public operation.
Enter(c, o) ==
    /\ op[c] = "idle"
    /\ op' = [op EXCEPT ![c] = o]
    /\ pc' = [pc EXCEPT ![c] = 1]
    /\ outcome' = [outcome EXCEPT ![c] = Running]
    /\ failed' = [failed EXCEPT ![c] = "none"]
    /\ returned' = [returned EXCEPT ![c] = <<>>]
    /\ UNCHANGED <<lockHolder, submitting>>
    /\ UNCHANGED NotCallVars

\* queue.with_lock(|| ...): the caller takes the queue lock before the call.
AcquireLock(c) ==
    /\ InCall(c)
    /\ CurrentCall(c).lock
    /\ lockHolder = NoCaller
    /\ lockHolder' = c
    /\ UNCHANGED <<pc, op, outcome, failed, returned, submitting>>
    /\ UNCHANGED NotCallVars

\* The caller issues a call that submits work to the queue.
StartSubmit(c) ==
    /\ InCall(c)
    /\ CurrentCall(c).submit
    /\ ~submitting[c]
    /\ CurrentCall(c).lock => lockHolder = c
    /\ submitting' = [submitting EXCEPT ![c] = TRUE]
    /\ UNCHANGED <<pc, op, outcome, failed, returned, lockHolder>>
    /\ UNCHANGED NotCallVars

\* The current native call returns `r`; with_lock releases the lock when its
\* closure returns, and the operation goes on or ends.
Return(c, r) ==
    /\ InCall(c)
    /\ r \in ResultsOf(CurrentCall(c))
    /\ CurrentCall(c).submit => submitting[c]
    /\ returned' = [returned EXCEPT ![c] = Append(@, [name |-> CurrentCall(c).name, r |-> r])]
    /\ LET call == CurrentCall(c)
           h == handle_result(call, r)
           done == h = Running /\ pc[c] = Len(Calls[op[c]])
       IN  /\ outcome' = [outcome EXCEPT ![c] = IF done THEN Ok ELSE h]
           /\ pc' = [pc EXCEPT ![c] = IF h = Running /\ ~done THEN @ + 1 ELSE @]
           /\ failed' = [failed EXCEPT ![c] =
                            IF r \in ErrorCodes /\ @ = "none" THEN r ELSE @]
    /\ submitting' = [submitting EXCEPT ![c] = FALSE]
    /\ lockHolder' = IF lockHolder = c THEN NoCaller ELSE lockHolder
    /\ UNCHANGED op
    /\ UNCHANGED NotCallVars

\* The operation has returned (or unwound); the caller is free again.
Leave(c) ==
    /\ op[c] # "idle"
    /\ outcome[c] # Running
    /\ op' = [op EXCEPT ![c] = "idle"]
    /\ pc' = [pc EXCEPT ![c] = 0]
    /\ outcome' = [outcome EXCEPT ![c] = Ok]
    /\ failed' = [failed EXCEPT ![c] = "none"]
    /\ returned' = [returned EXCEPT ![c] = <<>>]
    /\ UNCHANGED <<lockHolder, submitting>>
    /\ UNCHANGED NotCallVars

NextCalls ==
    \/ \E c \in Callers, o \in Operations : Enter(c, o)
    \/ \E c \in Callers : AcquireLock(c)
    \/ \E c \in Callers : StartSubmit(c)
    \/ \E c \in Callers, r \in Results \cup {"NONE"} : Return(c, r)
    \/ \E c \in Callers : Leave(c)

\* C1: an operation that ended after one of its native calls failed ended with
\* Err carrying the result code of that call: it did not panic, did not
\* succeed, and did not put another value in place of the code.
C1_NativeCodePropagated ==
    \A c \in Callers :
        (op[c] # "idle" /\ outcome[c] # Running /\ failed[c] # "none")
            => outcome[c] = Err(failed[c])

\* The steps of Context::create in the order the claim gives them
ContextCreateOrder ==
    <<"rk::create_entry", "Instance::create", "rk::create_debug_report_callback",
      "PhysicalDevice::choose", "PhysicalDevice::find_queue_family_index",
      "Device::create", "CommandPool::create">>

\* C16: Context::create takes its steps in the order instance, debug messenger,
\* physical device, logical device and queue, command pool, and stops at the
\* first fatal failure. It returns NoDevice exactly when the choice of the
\* physical device failed, NoQueue exactly when no queue family was found (no
\* logical device and no command pool is made then), and only a failure of the
\* debug messenger lets creation go on, up to Ok.
C16_ContextCreateSteps ==
    \A c \in Callers :
        op[c] = "ContextCreate" =>
            LET d == returned[c]
                n == Len(d)
                Failed(i) == d[i].r # "SUCCESS"
                LastFailed(name) == n > 0 /\ d[n].name = name /\ Failed(n)
            IN  /\ n <= Len(ContextCreateOrder)
                /\ \A i \in 1..n : d[i].name = ContextCreateOrder[i]
                /\ \A i \in 1..n :
                       (Failed(i) /\ i < n) => d[i].name = "rk::create_debug_report_callback"
                /\ LastFailed("rk::create_debug_report_callback") => outcome[c] = Running
                /\ outcome[c] = Err("NoDevice") <=> LastFailed("PhysicalDevice::choose")
                /\ outcome[c] = Err("NoQueue")
                      <=> LastFailed("PhysicalDevice::find_queue_family_index")
                /\ outcome[c] = Err("NoQueue") =>
                       \A i \in 1..n : d[i].name \notin {"Device::create", "CommandPool::create"}
                /\ outcome[c] \notin {Running, Ok} => (n > 0 /\ Failed(n))
                /\ outcome[c] = Ok =>
                       /\ n = Len(ContextCreateOrder)
                       /\ \A i \in 1..n :
                              Failed(i) => d[i].name = "rk::create_debug_report_callback"
                /\ outcome[c] = Running => pc[c] = n + 1

\* A Context was created although its debug messenger could not be, and
\* another creation ended with NoQueue.
C16_Witness ==
    /\ op["a"] = "ContextCreate"
    /\ outcome["a"] = Ok
    /\ returned["a"][3].r # "SUCCESS"
    /\ op["b"] = "ContextCreate"
    /\ outcome["b"] = Err("NoQueue")

\* C2: a caller that is submitting work to the device queue holds the queue
\* lock, so no two callers submit at the same time.
C2_SubmitUnderQueueLock ==
    \A c \in Callers : submitting[c] => lockHolder = c

(***************************************************************************)
(* One RenderEngine: clear and pass through RenderEngine::submit            *)
(***************************************************************************)
\* A call of clear or pass: the native calls that succeeded so far, how it
\* ended, and where the work it submitted is.
EngineCall(o) == [op |-> o, trace |-> <<>>, result |-> "running", work |-> "none"]

\* No pass was recorded yet
NoRecording == [result |-> "none"]

InitEngineVars ==
    /\ engineCalls = <<>>
    /\ enginePc = 0
    /\ recorded = NoRecording

\* clear and pass take &mut self: a call starts when no other call runs.
EngineEnter(o) ==
    /\ enginePc = 0
    /\ Len(engineCalls) < MaxCalls
    /\ engineCalls' = Append(engineCalls, EngineCall(o))
    /\ enginePc' = 1
    /\ UNCHANGED recorded
    /\ UNCHANGED NotEngineVars

\* Mutant of wait_returns: the wait returns without the work being done.
wait_returns_early(call, work) == TRUE

\* CommandBuffer::wait returns success only when the submitted work is done.
wait_returns(call, work) == call.name = "CommandBuffer::wait" => work = "completed"

\* The next native call of submit returns `r`: on success the operation goes
\* on (Queue::submit hands the work to the device) and returns Ok after the
\* last one; on failure `?` returns Err at once.
EngineStep(r) ==
    /\ enginePc > 0
    /\ LET k == Len(engineCalls)
           call == SubmitCalls[enginePc]
           h == handle_result(call, r)
           final == enginePc = Len(SubmitCalls)
       IN  /\ r = "SUCCESS" => wait_returns(call, engineCalls[k].work)
           /\ engineCalls' =
                 [engineCalls EXCEPT
                    ![k].trace = IF r = "SUCCESS" THEN Append(@, call.name) ELSE @,
                    ![k].work = IF r = "SUCCESS" /\ call.name = "Queue::submit"
                                  THEN "pending" ELSE @,
                    ![k].result = IF h # Running THEN h.kind
                                  ELSE IF final THEN "Ok" ELSE @]
           /\ enginePc' = IF h = Running /\ ~final THEN enginePc + 1 ELSE 0
    /\ UNCHANGED recorded
    /\ UNCHANGED NotEngineVars

\* The device finishes the work of call k.
DeviceComplete(k) ==
    /\ k \in 1..Len(engineCalls)
    /\ engineCalls[k].work = "pending"
    /\ engineCalls' = [engineCalls EXCEPT ![k].work = "completed"]
    /\ UNCHANGED <<enginePc, recorded>>
    /\ UNCHANGED NotEngineVars

NextEngine ==
    \/ \E o \in {"clear", "pass"} : EngineEnter(o)
    \/ \E r \in Results : EngineStep(r)
    \/ \E k \in 1..MaxCalls : DeviceComplete(k)

\* The order RenderEngine::submit makes its native calls in
SubmitOrder == [i \in 1..Len(SubmitCalls) |-> SubmitCalls[i].name]

\* C13 as stated: for any sequence of clear and pass calls on one engine, the
\* work of call k has completed on the device before the work of a later call
\* is submitted.
C13_WorkNeverOverlaps ==
    \A k \in 1..Len(engineCalls), j \in 1..Len(engineCalls) :
        (k < j /\ engineCalls[j].work # "none") => engineCalls[k].work # "pending"

\* C13, amended: every call allocates, begins, records, ends, submits and waits
\* in that order and returns Ok only after the wait has succeeded; the work of
\* a call that returned Ok has completed before a later call submits its own.
C13_SynchronousWhenOk ==
    \A k \in 1..Len(engineCalls) :
        LET c == engineCalls[k]
        IN  /\ c.trace = SubSeq(SubmitOrder, 1, Len(c.trace))
            /\ c.result = "Ok" <=> c.trace = SubmitOrder
            /\ c.work # "none" <=> Len(c.trace) >= 5
            /\ c.result = "Ok" => c.work = "completed"
            /\ c.result = "running" => (k = Len(engineCalls) /\ enginePc = Len(c.trace) + 1)
            /\ \A j \in 1..Len(engineCalls) :
                   (k < j /\ c.result = "Ok" /\ engineCalls[j].work # "none")
                       => c.work = "completed"

\* A clear returned Ok and the following pass has submitted its work.
C13_Witness ==
    /\ Len(engineCalls) = 2
    /\ engineCalls[1].op = "clear"
    /\ engineCalls[1].result = "Ok"
    /\ engineCalls[2].op = "pass"
    /\ engineCalls[2].work = "pending"

(***************************************************************************)
(* render.rs: what RenderEngine::pass records                              *)
(***************************************************************************)
\* A usize: `hi` counts the multiples of 2^32, `lo` is the low 32 bits
USize(hi, lo) == [hi |-> hi, lo |-> lo]

\* `n as u32` for a usize n: the low 32 bits
usize_as_u32(n) == n.lo

\* `n as f32` for a u32 n; exact for the extents studied here (below 2^24)
u32_as_f32(n) == [f32 |-> n]

\* The FunctionDefs a pass is recorded for
Functions ==
    {[pipeline |-> "pipeline1", pipeline_layout |-> "layout1"],
     [pipeline |-> "pipeline2", pipeline_layout |-> "layout2"]}

\* Index buffers made by make_array_buffer (len > 0): of 3, of 6 and of 2^32
\* indices
IndexBuffers ==
    {[buffer |-> "indices1", len |-> USize(0, 3)],
     [buffer |-> "indices2", len |-> USize(0, 6)],
     [buffer |-> "indices3", len |-> USize(1, 0)]}

\* struct DrawArgs: the arguments container, the vertex buffer and the index
\* buffer of one draw
DrawArgs ==
    [bindings : {[descriptor_set |-> "set1"], [descriptor_set |-> "set2"]},
     vertices : {[buffer |-> "vertices1"]},
     indices : IndexBuffers]

Rect2D(extent) == [offset |-> [x |-> 0, y |-> 0], extent |-> extent]

\* The body of the `for draw in draws` loop, from draw i on
RECURSIVE record_draws(_, _, _)
record_draws(function, draws, i) ==
    IF i > Len(draws)
      THEN <<>>
      ELSE LET draw == draws[i]
           IN  <<[cmd |-> "bind_descriptor_set",
                  pipeline_layout |-> function.pipeline_layout,
                  descriptor_set |-> draw.bindings.descriptor_set],
                 [cmd |-> "bind_vertex_buffers", first_binding |-> 0,
                  buffers |-> <<draw.vertices.buffer>>, offsets |-> <<0>>],
                 [cmd |-> "bind_index_buffer", buffer |-> draw.indices.buffer,
                  offset |-> 0, index_type |-> "UINT32"],
                 [cmd |-> "draw_indexed",
                  index_count |-> usize_as_u32(draw.indices.len),
                  instance_count |-> 1, first_index |-> 0, vertex_offset |-> 0,
                  first_instance |-> 0]>>
                 \o record_draws(function, draws, i + 1)

\* The recording closure of RenderEngine::pass: a failing begin_render_pass
\* returns through `?` with nothing recorded.
record_pass(extent, function, draws, beginOk) ==
    IF ~beginOk
      THEN <<>>
      ELSE <<[cmd |-> "begin_render_pass", render_area |-> Rect2D(extent),
              clear_values |-> <<>>],
             [cmd |-> "set_viewport",
              viewport |-> [x |-> u32_as_f32(0), y |-> u32_as_f32(0),
                            width |-> u32_as_f32(extent.width),
                            height |-> u32_as_f32(extent.height),
                            min_depth |-> u32_as_f32(0), max_depth |-> u32_as_f32(1)]],
             [cmd |-> "set_scissor", scissor |-> Rect2D(extent)],
             [cmd |-> "bind_pipeline", bind_point |-> "GRAPHICS",
              pipeline |-> function.pipeline]>>
             \o record_draws(function, draws, 1)
             \o <<[cmd |-> "end_render_pass"]>>

\* RenderEngine::pass(context, target, function, draws) with submit around the
\* closure: the native call `failAt` fails ("none": all succeed), the calls
\* before it have been made.
PassRecord(extent, function, draws, failAt) ==
    LET at == IF failAt = "none"
                 THEN Len(SubmitCalls) + 1
                 ELSE CHOOSE i \in 1..Len(SubmitCalls) : SubmitCalls[i].name = failAt
        reached(name) == \E i \in 1..Len(SubmitCalls) :
                            SubmitCalls[i].name = name /\ i < at
    IN  /\ enginePc = 0
        /\ recorded = NoRecording
        /\ recorded' =
              [result |-> IF failAt = "none" THEN "Ok" ELSE "Err",
               extent |-> extent,
               function |-> function,
               draws |-> draws,
               commands |-> IF reached("CommandBuffer::begin")
                               THEN record_pass(extent, function, draws,
                                                reached("CommandBuffer::begin_render_pass"))
                               ELSE <<>>,
               submitted |-> reached("Queue::submit")]
        /\ UNCHANGED <<engineCalls, enginePc>>
        /\ UNCHANGED NotEngineVars

\* The caller has looked at the result; the command buffer is gone.
PassReturn ==
    /\ recorded # NoRecording
    /\ recorded' = NoRecording
    /\ UNCHANGED <<engineCalls, enginePc>>
    /\ UNCHANGED NotEngineVars

NextRecord ==
    \/ \E e \in Extents, f \in Functions, ds \in SeqsUpTo(DrawArgs, MaxDraws),
          failAt \in {"none"} \cup {SubmitCalls[i].name : i \in 1..Len(SubmitCalls)} :
            PassRecord(e, f, ds, failAt)
    \/ PassReturn

\* The commands of draw i in the list a pass recorded
DrawGroup(cs, i) == SubSeq(cs, 4 * i + 1, 4 * i + 4)

\* C21: a pass that returned Ok has recorded begin_render_pass over the full
\* extent, set_viewport and set_scissor of the full extent, bind_pipeline once,
\* then for each DrawArgs in order one group bind_descriptor_set,
\* bind_vertex_buffers, bind_index_buffer, draw_indexed (index count the len of
\* the index buffer, instance count 1), and end_render_pass last; there are as
\* many draw_indexed as DrawArgs, and the recording was submitted, also with no
\* DrawArgs.
C21_PassRecording ==
    recorded.result = "Ok" =>
        LET cs == recorded.commands
            ds == recorded.draws
            n == Len(ds)
            e == recorded.extent
        IN  /\ recorded.submitted
            /\ Len(cs) = 4 * n + 5
            /\ cs[1].cmd = "begin_render_pass"
            /\ cs[1].render_area = [offset |-> [x |-> 0, y |-> 0], extent |-> e]
            /\ cs[2].cmd = "set_viewport"
            /\ cs[2].viewport.x.f32 = 0 /\ cs[2].viewport.y.f32 = 0
            /\ cs[2].viewport.width.f32 = e.width
            /\ cs[2].viewport.height.f32 = e.height
            /\ cs[3].cmd = "set_scissor"
            /\ cs[3].scissor = [offset |-> [x |-> 0, y |-> 0], extent |-> e]
            /\ cs[4].cmd = "bind_pipeline"
            /\ cs[4].pipeline = recorded.function.pipeline
            /\ Cardinality({j \in 1..Len(cs) : cs[j].cmd = "bind_pipeline"}) = 1
            /\ \A i \in 1..n :
                   LET g == DrawGroup(cs, i)
                   IN  /\ g[1].cmd = "bind_descriptor_set"
                       /\ g[1].descriptor_set = ds[i].bindings.descriptor_set
                       /\ g[2].cmd = "bind_vertex_buffers"
                       /\ g[2].buffers = <<ds[i].vertices.buffer>>
                       /\ g[3].cmd = "bind_index_buffer"
                       /\ g[3].buffer = ds[i].indices.buffer
                       /\ g[4].cmd = "draw_indexed"
                       /\ USize(0, g[4].index_count) = ds[i].indices.len
                       /\ g[4].instance_count = 1
            /\ cs[Len(cs)].cmd = "end_render_pass"
            /\ Cardinality({j \in 1..Len(cs) : cs[j].cmd = "draw_indexed"}) = n

(***************************************************************************)
(* Specifications                                                          *)
(***************************************************************************)
InitImage ==
    InitImageVars /\ IdleVertexVars /\ IdleBindingVars /\ IdlePassVars /\ InitBufferVars
      /\ InitEngineVars /\ InitCallVars
SpecImage ==
    InitImage /\ [][NextImage]_vars
SpecLayout ==
    InitImage /\ [][NextLayout]_vars

InitVertex ==
    InitImageVars /\ InitVertexVars /\ IdleBindingVars /\ IdlePassVars /\ InitBufferVars
      /\ InitEngineVars /\ InitCallVars
SpecVertex ==
    InitVertex /\ [][NextVertex]_vars

InitStride ==
    InitImageVars /\ InitStrideVars /\ IdleBindingVars /\ IdlePassVars /\ InitBufferVars
      /\ InitEngineVars /\ InitCallVars
SpecStride ==
    InitStride /\ [][NextStride]_vars

InitBindings ==
    InitImageVars /\ IdleVertexVars /\ InitBindingVars /\ PlainPassVars /\ InitBufferVars
      /\ InitEngineVars /\ InitCallVars
SpecBindings ==
    InitBindings /\ [][NextBindings]_vars

InitPass ==
    InitImageVars /\ IdleVertexVars /\ IdleBindingVars /\ InitPassVars /\ InitBufferVars
      /\ InitEngineVars /\ InitCallVars
SpecPass ==
    InitPass /\ [][NextPass]_vars

InitBuffer ==
    InitImageVars /\ IdleVertexVars /\ IdleBindingVars /\ IdlePassVars /\ InitBufferVars
      /\ InitEngineVars /\ InitCallVars
SpecBuffer ==
    InitBuffer /\ [][NextBuffer]_vars /\ FairBuffer

InitEngine ==
    InitImageVars /\ IdleVertexVars /\ IdleBindingVars /\ IdlePassVars /\ InitBufferVars
      /\ InitEngineVars /\ InitCallVars
SpecEngine ==
    InitEngine /\ [][NextEngine]_vars
SpecRecord ==
    InitEngine /\ [][NextRecord]_vars

InitCalls ==
    InitImageVars /\ IdleVertexVars /\ IdleBindingVars /\ IdlePassVars /\ InitBufferVars
      /\ InitEngineVars /\ InitCallVars
SpecCalls ==
    InitCalls /\ [][NextCalls]_vars

Init == InitCalls
Next == NextCalls
Spec == SpecCalls

====
